---- MODULE Spec2Model ----
(***************************************************************************)
(* Radiology-App: the store hand-off between the upload page and the two   *)
(* analytic pages (WorkflowPage, StaffProductivityPage), the time parser,  *)
(* the hourly aggregation, the filter recomputation and the peak hour.     *)
(*                                                                         *)
(* JavaScript strings are sequences of one-character strings, so that      *)
(* matching, trimming, splitting, comparing and number conversion are      *)
(* computed character by character as the code does.                       *)
(***************************************************************************)
EXTENDS Integers, Sequences, FiniteSets, Bags, TLC

\* ------------------------------------------------------------------------
\* Bounds of the model
\* ------------------------------------------------------------------------
\* longest row sequence that is uploaded or found in the store
MaxRows == 2
\* most filter controls that are away from their default at the same time
MaxChanges == 2

\* ------------------------------------------------------------------------
\* Characters and strings
\* ------------------------------------------------------------------------
Digits == <<"0", "1", "2", "3", "4", "5", "6", "7", "8", "9">>

DigitChars == {Digits[i] : i \in 1..Len(Digits)}

IsDigit(c) == c \in DigitChars

\* the value of each digit
DigitVals == [c \in DigitChars |-> (CHOOSE i \in 1..Len(Digits) : Digits[i] = c) - 1]

DigitVal(c) == DigitVals[c]

\* \s of the regular expression and the characters String.trim removes
IsSpace(c) == c \in {" ", "\t", "\n", "\r"}

\* printable ASCII in code-unit order; Ascii[i] has code unit i + 31 (the grave
\* accent, code unit 96, is written out as a word)
Ascii ==
  <<" ", "!", "\"", "#", "$", "%", "&", "'", "(", ")", "*", "+", ",", "-", ".", "/",
    "0", "1", "2", "3", "4", "5", "6", "7", "8", "9", ":", ";", "<", "=", ">", "?",
    "@", "A", "B", "C", "D", "E", "F", "G", "H", "I", "J", "K", "L", "M", "N", "O",
    "P", "Q", "R", "S", "T", "U", "V", "W", "X", "Y", "Z", "[", "\\", "]", "^", "_",
    "grave", "a", "b", "c", "d", "e", "f", "g", "h", "i", "j", "k", "l", "m", "n", "o",
    "p", "q", "r", "s", "t", "u", "v", "w", "x", "y", "z", "{", "|", "}", "~">>

Characters == {Ascii[i] : i \in 1..Len(Ascii)} \cup {"\t", "\n", "\r"}

\* the code unit of each character
CodeUnits ==
  [c \in Characters |->
     IF c = "\t" THEN 9
     ELSE IF c = "\n" THEN 10
     ELSE IF c = "\r" THEN 13
     ELSE 31 + (CHOOSE i \in 1..Len(Ascii) : Ascii[i] = c)]

CodeUnit(c) == CodeUnits[c]

\* String.prototype.toUpperCase, character by character
UpperChars ==
  [c \in Characters |->
     IF CodeUnits[c] >= 97 /\ CodeUnits[c] <= 122 THEN Ascii[CodeUnits[c] - 32 - 31] ELSE c]

UpperChar(c) == UpperChars[c]

\* a < b and a <= b of two strings: code units, left to right
RECURSIVE StrLess(_, _)
StrLess(a, b) ==
  IF b = <<>> THEN FALSE
  ELSE IF a = <<>> THEN TRUE
  ELSE IF CodeUnit(Head(a)) # CodeUnit(Head(b)) THEN CodeUnit(Head(a)) < CodeUnit(Head(b))
  ELSE StrLess(Tail(a), Tail(b))

StrLeq(a, b) == a = b \/ StrLess(a, b)

\* String.prototype.trim
RECURSIVE TrimLeft(_)
TrimLeft(s) == IF s # <<>> /\ IsSpace(Head(s)) THEN TrimLeft(Tail(s)) ELSE s

RECURSIVE TrimRight(_)
TrimRight(s) ==
  IF s # <<>> /\ IsSpace(s[Len(s)]) THEN TrimRight(SubSeq(s, 1, Len(s) - 1)) ELSE s

Trim(s) == TrimRight(TrimLeft(s))

\* String.prototype.split on a colon: the parts between the colons
RECURSIVE SplitColon(_, _, _)
SplitColon(s, cur, acc) ==
  IF s = <<>> THEN Append(acc, cur)
  ELSE IF Head(s) = ":" THEN SplitColon(Tail(s), <<>>, Append(acc, cur))
  ELSE SplitColon(Tail(s), Append(cur, Head(s)), acc)

Split(s) == SplitColon(s, <<>>, <<>>)

\* A JavaScript number: an integer or NaN
NaN == [nan |-> TRUE, v |-> 0]

Int2Num(n) == [nan |-> FALSE, v |-> n]

RECURSIVE DecimalValue(_, _)
DecimalValue(s, acc) ==
  IF s = <<>> THEN acc ELSE DecimalValue(Tail(s), 10 * acc + DigitVal(Head(s)))

\* the longest run of one to n digits at the head of s
RECURSIVE TakeDigits(_, _)
TakeDigits(s, n) ==
  IF n = 0 \/ s = <<>> \/ ~IsDigit(Head(s)) THEN <<>>
  ELSE <<Head(s)>> \o TakeDigits(Tail(s), n - 1)

\* parseInt(s, 10) on a run of digits
ParseInt(s) == DecimalValue(s, 0)

\* Number(s) of a string: blank is 0, a run of digits its value, anything else NaN
NumberOf(s) ==
  LET t == Trim(s) IN
    IF t = <<>> THEN Int2Num(0)
    ELSE IF \A i \in 1..Len(t) : IsDigit(t[i]) THEN Int2Num(DecimalValue(t, 0))
    ELSE NaN

\* a >= b and a <= b of two numbers: false as soon as one is NaN
NumGeq(a, b) == ~a.nan /\ ~b.nan /\ a.v >= b.v

NumLeq(a, b) == ~a.nan /\ ~b.nan /\ a.v <= b.v

\* a * 60 + b
\* TimesSixtyPlus without the minutes
TimesSixtyPlus_minutesDropped(a, b) == IF a.nan \/ b.nan THEN NaN ELSE Int2Num(a.v * 60)

TimesSixtyPlus(a, b) == IF a.nan \/ b.nan THEN NaN ELSE Int2Num(a.v * 60 + b.v)

\* Number.prototype.toString of 0..99 and padStart(2, '0')
ToStr(n) == IF n < 10 THEN <<Digits[n + 1]>> ELSE <<Digits[(n \div 10) + 1], Digits[(n % 10) + 1]>>

PadStart2(s) == IF Len(s) < 2 THEN <<"0">> \o s ELSE s

\* ------------------------------------------------------------------------
\* The time pattern /(\d{1,2}):(\d{2})\s*(AM|PM)?/i
\* ------------------------------------------------------------------------
DigitAt(s, i) == i >= 1 /\ i <= Len(s) /\ IsDigit(s[i])

ColonAt(s, i) == i >= 1 /\ i <= Len(s) /\ s[i] = ":"

\* number of hour digits of a match starting at i (two tried first), 0 if none
HourLenAt(s, i) ==
  IF DigitAt(s, i) /\ DigitAt(s, i + 1) /\ ColonAt(s, i + 2)
     /\ DigitAt(s, i + 3) /\ DigitAt(s, i + 4) THEN 2
  ELSE IF DigitAt(s, i) /\ ColonAt(s, i + 1) /\ DigitAt(s, i + 2) /\ DigitAt(s, i + 3) THEN 1
  ELSE 0

\* first position at or after i that is not white space
RECURSIVE SkipSpaces(_, _)
SkipSpaces(s, i) == IF i <= Len(s) /\ IsSpace(s[i]) THEN SkipSpaces(s, i + 1) ELSE i

\* group 3 at position k: AM or PM in either case, upper-cased; <<>> if absent
PeriodAt(s, k) ==
  IF k + 1 <= Len(s) /\ UpperChar(s[k]) \in {"A", "P"} /\ UpperChar(s[k + 1]) = "M"
  THEN <<UpperChar(s[k]), "M">>
  ELSE <<>>

NoMatch == [found |-> FALSE, g1 |-> <<>>, g2 |-> <<>>, g3 |-> <<>>]

\* the groups of the match that starts at i with n hour digits
GroupsAt(s, i, n) ==
  [found |-> TRUE,
   g1 |-> SubSeq(s, i, i + n - 1),
   g2 |-> SubSeq(s, i + n + 1, i + n + 2),
   g3 |-> PeriodAt(s, SkipSpaces(s, i + n + 3))]

\* the match at the first position at or after i where the pattern matches
RECURSIVE MatchFrom(_, _)
MatchFrom(s, i) ==
  IF i > Len(s) THEN NoMatch
  ELSE IF HourLenAt(s, i) > 0 THEN GroupsAt(s, i, HourLenAt(s, i))
  ELSE MatchFrom(s, i + 1)

\* timeStr.match(...): the leftmost match and its three groups
timeMatch(s) == MatchFrom(s, 1)

Null == [ok |-> FALSE, hour |-> 0, minute |-> 0, period |-> <<>>]

\* AdjustHour with the test for hour 12 left out of the PM branch
AdjustHour_noonShifted(hour, period) ==
  LET h1 == IF period = <<"P", "M">> THEN hour + 12 ELSE hour
  IN IF period = <<"A", "M">> /\ h1 = 12 THEN 0 ELSE h1

\* the hour adjustment both pages apply to the matched hour digits
AdjustHour(hour, period) ==
  LET h1 == IF period = <<"P", "M">> /\ hour # 12 THEN hour + 12 ELSE hour
  IN IF period = <<"A", "M">> /\ h1 = 12 THEN 0 ELSE h1

\* the result WorkflowPage.extractTimeFromString builds from the match m
TimeInfo(m) ==
  IF ~m.found THEN Null
  ELSE [ok |-> TRUE, hour |-> AdjustHour(ParseInt(m.g1), m.g3), minute |-> 0, period |-> m.g3]

\* WorkflowPage.extractTimeFromString: {hour, period} or null
extractTimeFromString(timeStr) == TimeInfo(timeMatch(timeStr))

\* the result StaffProductivityPage.extractTimeFromString builds from the match m
StaffTimeInfo(m) ==
  IF ~m.found THEN Null
  ELSE [ok |-> TRUE, hour |-> AdjustHour(ParseInt(m.g1), m.g3),
        minute |-> ParseInt(m.g2), period |-> <<>>]

\* StaffProductivityPage.extractTimeFromString: {hour, minute} or null
Staff_extractTimeFromString(timeStr) == StaffTimeInfo(timeMatch(timeStr))

\* ------------------------------------------------------------------------
\* String.prototype.localeCompare: primary weights first (white space, then
\* punctuation, symbols, digits, letters without regard to case), then case
\* (lower before upper) when the primary weights are all equal
\* ------------------------------------------------------------------------
CollationOrder ==
  <<"\t", "\n", "\r", " ", "_", "-", ",", ";", ":", "!", "?", ".", "'", "\"", "(", ")",
    "[", "]", "{", "}", "@", "*", "/", "\\", "&", "#", "%", "grave", "^", "+", "<", "=",
    ">", "|", "~", "$", "0", "1", "2", "3", "4", "5", "6", "7", "8", "9",
    "A", "B", "C", "D", "E", "F", "G", "H", "I", "J", "K", "L", "M", "N", "O", "P", "Q",
    "R", "S", "T", "U", "V", "W", "X", "Y", "Z">>

PrimaryWeights ==
  [c \in Characters |-> CHOOSE i \in 1..Len(CollationOrder) : CollationOrder[i] = UpperChars[c]]

PrimaryWeight(c) == PrimaryWeights[c]

CaseWeight(c) == IF UpperChar(c) = c /\ CodeUnit(c) >= 65 /\ CodeUnit(c) <= 90 THEN 1 ELSE 0

\* the weights of the characters of a string
PrimaryWeightsOf(a) == [i \in 1..Len(a) |-> PrimaryWeight(a[i])]

CaseWeightsOf(a) == [i \in 1..Len(a) |-> CaseWeight(a[i])]

\* -1, 0 or 1 as the weights a come before, with or after the weights b
RECURSIVE CompareWeights(_, _)
CompareWeights(a, b) ==
  IF a = <<>> /\ b = <<>> THEN 0
  ELSE IF a = <<>> THEN -1
  ELSE IF b = <<>> THEN 1
  ELSE IF Head(a) < Head(b) THEN -1
  ELSE IF Head(a) > Head(b) THEN 1
  ELSE CompareWeights(Tail(a), Tail(b))

localeCompare(a, b) ==
  IF CompareWeights(PrimaryWeightsOf(a), PrimaryWeightsOf(b)) # 0
  THEN CompareWeights(PrimaryWeightsOf(a), PrimaryWeightsOf(b))
  ELSE CompareWeights(CaseWeightsOf(a), CaseWeightsOf(b))

\* ------------------------------------------------------------------------
\* Rows: a field of a row is a string, a number or undefined
\* ------------------------------------------------------------------------
Str(s) == [t |-> "string", v |-> s]

Undefined == [t |-> "undefined", v |-> <<>>]

\* a number as a spreadsheet reader delivers it, v its decimal text
Num(text) == [t |-> "number", v |-> text]

\* the value as a condition: the empty string, undefined and the number 0 are
\* falsy, every other string and number is truthy
Truthy(x) ==
  \/ x.t = "string" /\ x.v # <<>>
  \/ x.t = "number" /\ \E i \in 1..Len(x.v) : x.v[i] \notin {"0", ".", "-"}

\* String(x): the text of a string, the decimal text of a number
ToText(x) == IF x.t = "undefined" THEN <<"u", "n", "d", "e", "f", "i", "n", "e", "d">> ELSE x.v

\* x || d: the field itself when it is truthy, a non-zero number as a number,
\* the string d otherwise
OrElse(x, d) == IF Truthy(x) THEN x ELSE Str(d)

\* x >= lo && x <= hi of a string or number x and strings lo and hi: two
\* strings are compared by code units; a number is compared with Number(lo)
\* and Number(hi), which is false when either is NaN. The number is its sign,
\* the whole part of its decimal text and the digits behind the point
Between(x, lo, hi) ==
  IF x.t = "string" THEN StrLeq(lo, x.v) /\ StrLeq(x.v, hi)
  ELSE LET negative == x.v # <<>> /\ Head(x.v) = "-"
           body == IF negative THEN Tail(x.v) ELSE x.v
           whole == DecimalValue(TakeDigits(body, Len(body)), 0)
           noFraction == \A i \in 1..Len(body) :
                           \A j \in 1..(i - 1) : body[j] = "." => body[i] = "0"
           Geq(n) == IF negative THEN whole < -n \/ (whole = -n /\ noFraction)
                     ELSE whole >= n
           Leq(n) == IF negative THEN whole >= -n
                     ELSE whole < n \/ (whole = n /\ noFraction)
       IN /\ ~NumberOf(lo).nan /\ ~NumberOf(hi).nan
          /\ Geq(NumberOf(lo).v) /\ Leq(NumberOf(hi).v)

NA == <<"N", "/", "A">>

Unassigned == <<"U", "n", "a", "s", "s", "i", "g", "n", "e", "d">>

Row(date, time, mod, status, signer) ==
  [Date |-> date, Time |-> time, PatientID |-> Undefined, PatientName |-> Undefined,
   Mod |-> mod, Description |-> Undefined, Status |-> status, Accession |-> Undefined,
   BodyPart |-> Undefined, ReportSignedBy |-> signer]

\* ------------------------------------------------------------------------
\* Array helpers
\* ------------------------------------------------------------------------
Includes(list, x) == \E i \in 1..Len(list) : list[i] = x

\* Set.prototype.add: the values of a Set in insertion order
AddValue(list, x) == IF Includes(list, x) THEN list ELSE Append(list, x)

\* ------------------------------------------------------------------------
\* Counting on a plain object {}: its own properties in the order they were
\* created, each a key and a value
\* ------------------------------------------------------------------------
\* obj[key] = (obj[key] || 0) + 1. The read finds the own property, else what
\* {} inherits from Object.prototype under that key: a function, whose text
\* the + joins with "1", or for __proto__ the prototype itself; the write to
\* __proto__ reaches its setter, which ignores a value that is no object
CountOn(obj, key) ==
  LET own == {i \in 1..Len(obj) : obj[i].key = key}
      proto == <<"_", "_", "p", "r", "o", "t", "o", "_", "_">>
      named == {<<"h", "a", "s", "O", "w", "n", "P", "r", "o", "p", "e", "r",
                  "t", "y">>,
                <<"i", "s", "P", "r", "o", "t", "o", "t", "y", "p", "e", "O",
                  "f">>,
                <<"p", "r", "o", "p", "e", "r", "t", "y", "I", "s", "E", "n",
                  "u", "m", "e", "r", "a", "b", "l", "e">>,
                <<"t", "o", "L", "o", "c", "a", "l", "e", "S", "t", "r", "i",
                  "n", "g">>,
                <<"t", "o", "S", "t", "r", "i", "n", "g">>,
                <<"v", "a", "l", "u", "e", "O", "f">>,
                <<"_", "_", "d", "e", "f", "i", "n", "e", "G", "e", "t", "t",
                  "e", "r", "_", "_">>,
                <<"_", "_", "d", "e", "f", "i", "n", "e", "S", "e", "t", "t",
                  "e", "r", "_", "_">>,
                <<"_", "_", "l", "o", "o", "k", "u", "p", "G", "e", "t", "t",
                  "e", "r", "_", "_">>,
                <<"_", "_", "l", "o", "o", "k", "u", "p", "S", "e", "t", "t",
                  "e", "r", "_", "_">>}
      inherited ==
        IF key = <<"c", "o", "n", "s", "t", "r", "u", "c", "t", "o", "r">>
        THEN Str(<<"f", "u", "n", "c", "t", "i", "o", "n", " ", "O", "b", "j", "e",
               "c", "t", "(", ")", " ", "{", " ", "[", "n", "a", "t", "i", "v",
               "e", " ", "c", "o", "d", "e", "]", " ", "}">>)
        ELSE IF key \in named
        THEN Str(<<"f", "u", "n", "c", "t", "i", "o", "n", " ">> \o key
                 \o <<"(", ")", " ", "{", " ", "[", "n", "a", "t", "i", "v",
                      "e", " ", "c", "o", "d", "e", "]", " ", "}">>)
        ELSE IF key = proto
        THEN Str(<<"[", "o", "b", "j", "e", "c", "t", " ", "O", "b", "j", "e", "c",
               "t", "]">>)
        ELSE Undefined
      read == IF own # {} THEN obj[CHOOSE i \in own : TRUE].value ELSE inherited
      sum == IF read.t = "undefined" THEN Num(<<"1">>)
             ELSE IF read.t = "number" THEN Num(ToStr(DecimalValue(read.v, 0) + 1))
             ELSE Str(read.v \o <<"1">>)
  IN IF key = proto THEN obj
     ELSE IF own # {}
     THEN [i \in 1..Len(obj) |-> IF i \in own THEN [obj[i] EXCEPT !.value = sum] ELSE obj[i]]
     ELSE Append(obj, [key |-> key, value |-> sum])

\* the object after each of the keys was counted on {} in turn
RECURSIVE CountAll(_)
CountAll(keys) ==
  IF keys = <<>> THEN <<>>
  ELSE CountOn(CountAll(SubSeq(keys, 1, Len(keys) - 1)), keys[Len(keys)])

\* place x behind every element whose text does not compare greater (the sort
\* is stable)
RECURSIVE InsertByText(_, _)
InsertByText(sorted, x) ==
  IF sorted = <<>> THEN <<x>>
  ELSE IF StrLeq(ToText(Head(sorted)), ToText(x))
       THEN <<Head(sorted)>> \o InsertByText(Tail(sorted), x)
  ELSE <<x>> \o sorted

\* Array.from(set).sort() of the values of a Set in insertion order: ascending
\* by the code units of their texts
RECURSIVE SortStrings(_)
SortStrings(list) ==
  IF list = <<>> THEN <<>>
  ELSE InsertByText(SortStrings(SubSeq(list, 1, Len(list) - 1)), list[Len(list)])

\* place e behind every element that does not compare greater (the sort is stable)
\* InsertByTimestamp comparing the timestamps by code units
RECURSIVE InsertByTimestamp_byCodeUnit(_, _)
InsertByTimestamp_byCodeUnit(sorted, e) ==
  IF sorted = <<>> THEN <<e>>
  ELSE IF StrLeq(Head(sorted).timestamp, e.timestamp)
       THEN <<Head(sorted)>> \o InsertByTimestamp_byCodeUnit(Tail(sorted), e)
  ELSE <<e>> \o sorted

RECURSIVE InsertByTimestamp(_, _)
InsertByTimestamp(sorted, e) ==
  IF sorted = <<>> THEN <<e>>
  ELSE IF localeCompare(Head(sorted).timestamp, e.timestamp) <= 0
       THEN <<Head(sorted)>> \o InsertByTimestamp(Tail(sorted), e)
  ELSE <<e>> \o sorted

\* entries.sort((a, b) => a.timestamp.localeCompare(b.timestamp))
RECURSIVE SortByTimestamp(_)
SortByTimestamp(entries) ==
  IF entries = <<>> THEN <<>>
  ELSE InsertByTimestamp(SortByTimestamp(SubSeq(entries, 1, Len(entries) - 1)),
                         entries[Len(entries)])

\* Array.prototype.join(', ')
RECURSIVE Join(_)
Join(list) ==
  IF list = <<>> THEN <<>>
  ELSE IF Len(list) = 1 THEN ToText(list[1])
  ELSE ToText(list[1]) \o <<",", " ">> \o Join(Tail(list))

\* ------------------------------------------------------------------------
\* WorkflowPage: hourly aggregation
\* ------------------------------------------------------------------------
Hours == 0..23

formatHour(hour) ==
  [hour24 |-> PadStart2(ToStr(hour)) \o <<":", "0", "0">>,
   hour12 |-> PadStart2(IF hour = 0 THEN ToStr(12)
                        ELSE IF hour > 12 THEN ToStr(hour - 12) ELSE ToStr(hour))
              \o <<":", "0", "0", " ">>
              \o (IF hour < 12 THEN <<"A", "M">> ELSE <<"P", "M">>)]

\* the EntryDetail built for a row whose trimmed time is timeStr: timestamp and
\* patientId are strings, every other field is the value of the row or the
\* string that stands for a missing one
EntryDetail(row, timeStr) ==
  [date |-> OrElse(row.Date, NA),
   timestamp |-> ToText(OrElse(row.Date, NA)) \o <<" ">> \o timeStr,
   patientId |-> IF row.PatientID.t = "undefined" \/ row.PatientID.v = <<>>
                 THEN NA ELSE row.PatientID.v,
   patientName |-> OrElse(row.PatientName, NA),
   modality |-> OrElse(row.Mod, NA),
   description |-> OrElse(row.Description, NA),
   status |-> OrElse(row.Status, NA),
   accession |-> OrElse(row.Accession, NA),
   bodyPart |-> OrElse(row.BodyPart, NA),
   reportSignedBy |-> OrElse(row.ReportSignedBy, <<>>)]

\* the accumulators of processTimestamps before the first row
EmptyAcc ==
  [hourData |-> [h \in Hours |-> [count |-> 0, entries |-> <<>>]],
   modalities |-> <<>>, statuses |-> <<>>, signers |-> <<>>, validEntries |-> 0]

\* the hour a row is bucketed under, -1 when the row is skipped: row.Time?.trim()
\* throws on a number (caught by the row's try), is falsy when undefined or blank
ValidHour(timeInfo) ==
  IF ~timeInfo.ok \/ timeInfo.hour < 0 \/ timeInfo.hour > 23 THEN -1 ELSE timeInfo.hour

RowHour(row) ==
  IF row.Time.t # "string" THEN -1
  ELSE IF Trim(row.Time.v) = <<>> THEN -1
  ELSE ValidHour(extractTimeFromString(Trim(row.Time.v)))

\* AddEntry with validEntries left as it was
AddEntry_notTotalled(acc, hour, entryDetail) ==
  [hourData |-> [acc.hourData EXCEPT ![hour] =
                   [count |-> @.count + 1, entries |-> Append(@.entries, entryDetail)]],
   modalities |-> AddValue(acc.modalities, entryDetail.modality),
   statuses |-> AddValue(acc.statuses, entryDetail.status),
   signers |-> IF Truthy(entryDetail.reportSignedBy)
               THEN AddValue(acc.signers, entryDetail.reportSignedBy)
               ELSE acc.signers,
   validEntries |-> acc.validEntries]

\* the accumulators after entryDetail is counted under hour
AddEntry(acc, hour, entryDetail) ==
  [hourData |-> [acc.hourData EXCEPT ![hour] =
                   [count |-> @.count + 1, entries |-> Append(@.entries, entryDetail)]],
   modalities |-> AddValue(acc.modalities, entryDetail.modality),
   statuses |-> AddValue(acc.statuses, entryDetail.status),
   signers |-> IF Truthy(entryDetail.reportSignedBy)
               THEN AddValue(acc.signers, entryDetail.reportSignedBy)
               ELSE acc.signers,
   validEntries |-> acc.validEntries + 1]

\* CountRow with a skipped row kept as a placeholder entry of hour 0
CountRow_placeholder(acc, row, hour) ==
  IF hour = -1 THEN AddEntry(acc, 0, EntryDetail(row, Trim(row.Time.v)))
  ELSE AddEntry(acc, hour, EntryDetail(row, Trim(row.Time.v)))

\* the accumulators after a row whose bucket hour is hour, -1 when it is skipped
CountRow(acc, row, hour) ==
  IF hour = -1 THEN acc ELSE AddEntry(acc, hour, EntryDetail(row, Trim(row.Time.v)))

\* one turn of rows.forEach in processTimestamps
ProcessRow(acc, row) == CountRow(acc, row, RowHour(row))

RECURSIVE ProcessRows(_, _)
ProcessRows(acc, rows) ==
  IF rows = <<>> THEN acc ELSE ProcessRows(ProcessRow(acc, Head(rows)), Tail(rows))

\* the state processTimestamps sets from its accumulators
SortedData(acc) ==
  [hourlyData |-> [i \in 1..24 |->
                     [hour |-> formatHour(i - 1).hour24,
                      hour12 |-> formatHour(i - 1).hour12,
                      count |-> acc.hourData[i - 1].count,
                      entries |-> SortByTimestamp(acc.hourData[i - 1].entries)]],
   totalEntries |-> acc.validEntries,
   availableModalities |-> SortStrings(acc.modalities),
   availableStatuses |-> SortStrings(acc.statuses),
   availableSigners |-> SortStrings(acc.signers)]

\* WorkflowPage.processTimestamps: the state it sets
processTimestamps(rows) == SortedData(ProcessRows(EmptyAcc, rows))

\* ------------------------------------------------------------------------
\* WorkflowPage: filter recomputation, peak hour, summary report
\* ------------------------------------------------------------------------
\* the hour number read from the first colon-separated part of a label or bound
HourPart(s) == NumberOf(Split(s)[1])

\* the four tests of the predicate of hourData.entries.filter
modalityMatch(w, entry) ==
  Len(w.selectedModalities) = 0 \/ Includes(w.selectedModalities, entry.modality)

\* statusMatch with the status selection ignored
statusMatch_selectionIgnored(w, entry) == Len(w.selectedStatuses) >= 0

statusMatch(w, entry) ==
  Len(w.selectedStatuses) = 0 \/ Includes(w.selectedStatuses, entry.status)

\* signerMatch without the case of an empty selection
signerMatch_selectionRequired(w, entry) ==
  Truthy(entry.reportSignedBy) /\ Includes(w.selectedSigners, entry.reportSignedBy)

signerMatch(w, entry) ==
  Len(w.selectedSigners) = 0
  \/ (Truthy(entry.reportSignedBy) /\ Includes(w.selectedSigners, entry.reportSignedBy))

\* dateMatch with the end bound excluded
dateMatch_endExclusive(w, entry) ==
  w.dateRange.start = <<>> \/ w.dateRange.end = <<>>
  \/ (Between(entry.date, w.dateRange.start, w.dateRange.end)
      /\ entry.date # Str(w.dateRange.end))

dateMatch(w, entry) ==
  w.dateRange.start = <<>> \/ w.dateRange.end = <<>>
  \/ (Between(entry.date, w.dateRange.start, w.dateRange.end))

\* the predicate of hourData.entries.filter
EntryMatches(w, entry) ==
  modalityMatch(w, entry) /\ statusMatch(w, entry) /\ signerMatch(w, entry) /\ dateMatch(w, entry)

\* TimeRangeMatch with the hour of the start bound left out of the range
TimeRangeMatch_afterStartHour(hourNum, startHour, endHour) ==
  ~hourNum.nan /\ ~startHour.nan /\ hourNum.v > startHour.v /\ NumLeq(hourNum, endHour)

\* hourNum >= startHour && hourNum <= endHour
TimeRangeMatch(hourNum, startHour, endHour) ==
  NumGeq(hourNum, startHour) /\ NumLeq(hourNum, endHour)

\* hourData.entries.filter(...)
FilteredEntries(w, entries) == LET Keep(entry) == EntryMatches(w, entry) IN SelectSeq(entries, Keep)

\* WithEntries with the count of the unfiltered bucket kept
WithEntries_countKept(hourData, filteredEntries) ==
  [hourData EXCEPT !.entries = filteredEntries]

\* the bucket with the entries replaced and counted
WithEntries(hourData, filteredEntries) ==
  [hourData EXCEPT !.count = Len(filteredEntries), !.entries = filteredEntries]

\* FilterBucket with a bucket outside the time range left without its labels
FilterBucket_zeroedUnlabelled(w, hourData) ==
  IF ~TimeRangeMatch(HourPart(hourData.hour), HourPart(w.timeRange.start),
                     HourPart(w.timeRange.end))
  THEN [hourData EXCEPT !.hour = <<>>, !.hour12 = <<>>, !.count = 0, !.entries = <<>>]
  ELSE WithEntries(hourData, FilteredEntries(w, hourData.entries))

\* one bucket of the filtered view
FilterBucket(w, hourData) ==
  IF ~TimeRangeMatch(HourPart(hourData.hour), HourPart(w.timeRange.start),
                     HourPart(w.timeRange.end))
  THEN [hourData EXCEPT !.count = 0, !.entries = <<>>]
  ELSE WithEntries(hourData, FilteredEntries(w, hourData.entries))

\* WorkflowPage.filteredData of the page state w
filteredData(w) == [i \in 1..Len(w.hourlyData) |-> FilterBucket(w, w.hourlyData[i])]

\* PeakStep with >= in place of >
PeakStep_lastWins(max, curr) == IF curr.count >= max.count THEN curr ELSE max

\* the callback of the peak-hour reduce
PeakStep(max, curr) == IF curr.count > max.count THEN curr ELSE max

RECURSIVE ReduceFrom(_, _)
ReduceFrom(max, rest) ==
  IF rest = <<>> THEN max ELSE ReduceFrom(PeakStep(max, Head(rest)), Tail(rest))

\* data.reduce((max, curr) => curr.count > max.count ? curr : max) on a
\* non-empty array
peakHour(data) == ReduceFrom(Head(data), Tail(data))

\* the label of a bucket in the chosen time format
HourLabel(timeFormat, bucket) == IF timeFormat = "24" THEN bucket.hour ELSE bucket.hour12

\* the text the Peak Hour card shows for the filtered view data
PeakHourText(timeFormat, data) ==
  IF Len(data) > 0 THEN HourLabel(timeFormat, peakHour(data)) ELSE NA

\* the text of the Peak Hour card
PeakHourCard(w) == PeakHourText(w.timeFormat, filteredData(w))

RECURSIVE SumCounts(_)
SumCounts(data) == IF data = <<>> THEN 0 ELSE Head(data).count + SumCounts(Tail(data))

RECURSIVE AllEntries(_)
AllEntries(data) == IF data = <<>> THEN <<>> ELSE Head(data).entries \o AllEntries(Tail(data))

All == <<"A", "l", "l">>

NoReport == [saved |-> FALSE]

\* text || 'All'
OrAll(text) == IF text = <<>> THEN All ELSE text

\* the modality table: Object.entries of the object the modalities of the
\* entries were counted on, the text of a modality being the key. The keys
\* that are array indices come first, ascending, then the others in the order
\* they were created
ModalityCounts(entries) ==
  LET obj == CountAll([i \in 1..Len(entries) |-> ToText(entries[i].modality)])
      IsIndex(k) ==
        /\ k # <<>> /\ \A i \in 1..Len(k) : IsDigit(k[i])
        /\ Head(k) = "0" => Len(k) = 1
        /\ Len(k) < 10
           \/ (Len(k) = 10 /\ StrLeq(k, <<"4", "2", "9", "4", "9", "6", "7", "2", "9", "4">>))
      Below(a, b) == Len(a) < Len(b) \/ (Len(a) = Len(b) /\ StrLess(a, b))
      indices == {i \in 1..Len(obj) : IsIndex(obj[i].key)}
      Named(property) == ~IsIndex(property.key)
  IN [p \in 1..Cardinality(indices) |->
        obj[CHOOSE i \in indices :
              Cardinality({j \in indices : Below(obj[j].key, obj[i].key)}) = p - 1]]
     \o SelectSeq(obj, Named)

\* the tables of the document written from the filtered view data
SummaryOf(w, data) ==
  IF Len(data) = 0 THEN NoReport
  ELSE [saved |-> TRUE,
        totalStudies |-> SumCounts(data),
        activeHours |-> Cardinality({i \in 1..Len(data) : data[i].count > 0}),
        peakHour |-> HourLabel(w.timeFormat, peakHour(data)),
        peakHourStudies |-> peakHour(data).count,
        modalityCounts |-> ModalityCounts(AllEntries(data)),
        dateRange |-> [start |-> OrAll(w.dateRange.start), end |-> OrAll(w.dateRange.end)],
        timeRange |-> w.timeRange,
        modalities |-> OrAll(Join(w.selectedModalities)),
        statuses |-> OrAll(Join(w.selectedStatuses)),
        signers |-> OrAll(Join(w.selectedSigners))]

\* WorkflowPage.generateSummaryReport: the tables of the saved document
generateSummaryReport(w) == SummaryOf(w, filteredData(w))

\* ------------------------------------------------------------------------
\* StaffProductivityPage: date parsing (date-fns parse and isValid)
\* ------------------------------------------------------------------------
\* date-fns is bundled with the application and is not part of its sources.
\* Its parse either converts the value to parse to a string first
\* ("converting", as version 2 does) or calls match on the value as it is
\* ("matching", as versions 3 and later do), which throws a TypeError when
\* the value is a number. Which of the two the application runs with is
\* decided when it is built and never changes.
VARIABLE dateFns

DateLibraries == {"converting", "matching"}

InvalidDate == [valid |-> FALSE, y |-> 0, m |-> 0, d |-> 0]

DaysInMonth(y, m) ==
  IF m \in {4, 6, 9, 11} THEN 30
  ELSE IF m = 2 THEN IF (y % 4 = 0 /\ y % 100 # 0) \/ y % 400 = 0 THEN 29 ELSE 28
  ELSE 31

CheckedDate(y, m, d) ==
  IF y >= 1 /\ m >= 1 /\ m <= 12 /\ d >= 1 /\ d <= DaysInMonth(y, m)
  THEN [valid |-> TRUE, y |-> y, m |-> m, d |-> d]
  ELSE InvalidDate

\* a numeric field of one to n digits at the head of s, and what follows it
FieldOf(s, digits) ==
  [ok |-> digits # <<>>, value |-> ParseInt(digits), rest |-> SubSeq(s, Len(digits) + 1, Len(s))]

TakeField(s, n) == FieldOf(s, TakeDigits(s, n))

StartsWith(s, c) == s # <<>> /\ Head(s) = c

\* what is left behind the last field may be white space only
AfterThird(v1, v2, c) ==
  IF ~c.ok \/ \E i \in 1..Len(c.rest) : ~IsSpace(c.rest[i]) THEN <<>> ELSE <<v1, v2, c.value>>

AfterSecond(v1, b, n3, sep) ==
  IF ~b.ok \/ ~StartsWith(b.rest, sep) THEN <<>>
  ELSE AfterThird(v1, b.value, TakeField(Tail(b.rest), n3))

AfterFirst(a, n2, n3, sep) ==
  IF ~a.ok \/ ~StartsWith(a.rest, sep) THEN <<>>
  ELSE AfterSecond(a.value, TakeField(Tail(a.rest), n2), n3, sep)

\* three numeric fields of at most n1, n2, n3 digits with the separator sep
\* between them and at most white space behind them; <<>> when the string is
\* not of that form
ParseFields(s, n1, n2, n3, sep) == AfterFirst(TakeField(s, n1), n2, n3, sep)

IsoOf(f) == IF f = <<>> THEN InvalidDate ELSE CheckedDate(f[1], f[2], f[3])

UsOf(f) == IF f = <<>> THEN InvalidDate ELSE CheckedDate(f[3], f[1], f[2])

\* parse(s, 'yyyy-MM-dd', new Date())
ParseIsoDate(s) == IsoOf(ParseFields(s, 4, 2, 2, "-"))

\* parse(s, 'MM/dd/yyyy', new Date())
ParseUsDate(s) == UsOf(ParseFields(s, 2, 2, 4, "/"))

\* a < b of two valid dates
DateBefore(a, b) ==
  a.y < b.y \/ (a.y = b.y /\ (a.m < b.m \/ (a.m = b.m /\ a.d < b.d)))

\* ------------------------------------------------------------------------
\* StaffProductivityPage: filtering and aggregation
\* ------------------------------------------------------------------------
\* part i of a split bound as a number, NaN when the part is missing
PartNumber(parts, i) == IF i <= Len(parts) THEN NumberOf(parts[i]) ELSE NaN

\* hour * 60 + minute of a split bound
MinuteOfDay(parts) == TimesSixtyPlus(PartNumber(parts, 1), PartNumber(parts, 2))

\* timeValue >= startValue && timeValue <= endValue, false for an unparsed time
InRange(time, startValue, endValue) ==
  IF ~time.ok THEN FALSE
  ELSE /\ NumGeq(Int2Num(time.hour * 60 + time.minute), startValue)
       /\ NumLeq(Int2Num(time.hour * 60 + time.minute), endValue)

\* StaffProductivityPage.isTimeInRange on a string
isTimeInRange(timeStr, start, end) ==
  InRange(Staff_extractTimeFromString(timeStr), MinuteOfDay(Split(start)), MinuteOfDay(Split(end)))

\* all three dates are valid and currentDate is before startDate or after endDate
OutOfRange(startDate, endDate, currentDate) ==
  /\ startDate.valid /\ endDate.valid /\ currentDate.valid
  /\ (DateBefore(currentDate, startDate) \/ DateBefore(endDate, currentDate))

\* the date range test of processData: TRUE when the row is rejected by it.
\* The bounds are strings. A Date that is not a string is converted to its text
\* by the parse of a converting library; the parse of a matching library
\* throws on it, and the catch of the date test rejects the row
DateExcludes(s, row) ==
  /\ s.dateRange.start # <<>> /\ s.dateRange.end # <<>>
  /\ Truthy(row.Date)
  /\ IF row.Date.t # "string" /\ dateFns = "matching"
     THEN TRUE
     ELSE OutOfRange(ParseIsoDate(s.dateRange.start), ParseIsoDate(s.dateRange.end),
                     ParseUsDate(ToText(row.Date)))

\* what the callback of rows.filter does with one row: "keep", "drop", or
\* "throw" when timeStr.match is called on a time that is not a string
RowOutcome(s, row) ==
  IF DateExcludes(s, row) THEN "drop"
  ELSE IF row.Time.t # "string" THEN "throw"
  ELSE IF ~isTimeInRange(row.Time.v, s.timeRange.start, s.timeRange.end) THEN "drop"
  ELSE IF Len(s.selectedModalities) > 0 /\ ~Includes(s.selectedModalities, OrElse(row.Mod, NA))
       THEN "drop"
  ELSE IF Len(s.selectedStatuses) > 0 /\ ~Includes(s.selectedStatuses, OrElse(row.Status, NA))
       THEN "drop"
  ELSE IF Len(s.selectedRadiologists) > 0
          /\ ~Includes(s.selectedRadiologists, OrElse(row.ReportSignedBy, Unassigned))
       THEN "drop"
  ELSE "keep"

\* TRUE when rows.filter throws: a row reaches the time test with a time that
\* is not a string
FilterThrows(s, rows) == \E i \in 1..Len(rows) : RowOutcome(s, rows[i]) = "throw"

FilteredRows(s, rows) ==
  LET Keep(row) == RowOutcome(s, row) = "keep" IN SelectSeq(rows, Keep)

\* the keys of a Map in insertion order
RECURSIVE KeysInOrder(_, _)
KeysInOrder(keys, seen) ==
  IF keys = <<>> THEN <<>>
  ELSE IF Head(keys) \in seen THEN KeysInOrder(Tail(keys), seen)
  ELSE <<Head(keys)>> \o KeysInOrder(Tail(keys), seen \cup {Head(keys)})

\* place e behind every element whose count is not smaller (the sort is stable)
RECURSIVE InsertByCount(_, _)
InsertByCount(sorted, e) ==
  IF sorted = <<>> THEN <<e>>
  ELSE IF Head(sorted).count >= e.count THEN <<Head(sorted)>> \o InsertByCount(Tail(sorted), e)
  ELSE <<e>> \o sorted

\* list.sort((a, b) => b.count - a.count)
RECURSIVE SortByCountDesc(_)
SortByCountDesc(list) ==
  IF list = <<>> THEN <<>>
  ELSE InsertByCount(SortByCountDesc(SubSeq(list, 1, Len(list) - 1)), list[Len(list)])

\* the same for .sort((a, b) => b.totalStudies - a.totalStudies)
RECURSIVE InsertByTotal(_, _)
InsertByTotal(sorted, e) ==
  IF sorted = <<>> THEN <<e>>
  ELSE IF Head(sorted).totalStudies >= e.totalStudies
       THEN <<Head(sorted)>> \o InsertByTotal(Tail(sorted), e)
  ELSE <<e>> \o sorted

RECURSIVE SortByTotalDesc(_)
SortByTotalDesc(list) ==
  IF list = <<>> THEN <<>>
  ELSE InsertByTotal(SortByTotalDesc(SubSeq(list, 1, Len(list) - 1)), list[Len(list)])

RowModality(row) == OrElse(row.Mod, NA)

RowSigner(row) == OrElse(row.ReportSignedBy, Unassigned)

\* count / total * 100 as an exact fraction, 0 when total is 0
Percentage(count, total) ==
  IF total > 0 THEN [num |-> count * 100, den |-> total] ELSE [num |-> 0, den |-> 1]

\* the option lists computed from the rows (getAvailableFilterOptions, and the
\* same loop at the head of processData)
getAvailableFilterOptions(rows) ==
  [modalities |-> SortStrings(KeysInOrder([i \in 1..Len(rows) |-> RowModality(rows[i])], {})),
   statuses |-> SortStrings(KeysInOrder([i \in 1..Len(rows) |-> OrElse(rows[i].Status, NA)], {})),
   radiologists |-> SortStrings(KeysInOrder([i \in 1..Len(rows) |-> RowSigner(rows[i])], {}))]

\* the messages setError is called with, and null
ProcessingError == "Error processing data. Please check the file format and try again."

StoredDataError == "Error processing data. Please try uploading the file again."

NoError == "null"

\* the rows of one signer, and the number of rows of one modality
OfSigner(rows, name) == LET P(row) == RowSigner(row) = name IN SelectSeq(rows, P)

CountOfModality(rows, m) == Cardinality({i \in 1..Len(rows) : RowModality(rows[i]) = m})

\* the entry staffMap holds for name once its studies are collected
StaffEntry(name, studies) ==
  [reportSignedBy |-> name, count |-> Len(studies), studies |-> studies,
   modalities |-> CountAll([i \in 1..Len(studies) |-> ToText(RowModality(studies[i]))])]

\* staffMap as its entries in insertion order
StaffEntries(rows, names) == [i \in 1..Len(names) |-> StaffEntry(names[i], OfSigner(rows, names[i]))]

\* modalityCountMap as {modality, count, percentage} in insertion order
ModalityEntries(rows, mods) ==
  [i \in 1..Len(mods) |->
     [modality |-> mods[i], count |-> CountOfModality(rows, mods[i]),
      percentage |-> Percentage(CountOfModality(rows, mods[i]), Len(rows))]]

Positive(x) == x.count > 0

AsStaffData(staff) ==
  [i \in 1..Len(staff) |->
     [reportSignedBy |-> staff[i].reportSignedBy, count |-> staff[i].count,
      studies |-> staff[i].studies]]

AsStaffModalityData(staff) ==
  [i \in 1..Len(staff) |->
     [reportSignedBy |-> staff[i].reportSignedBy, modalities |-> staff[i].modalities,
      totalStudies |-> staff[i].count]]

\* the number of distinct truthy Date values of the rows
\* DistinctDates counting a date once for each row
DistinctDates_perRow(rows) ==
  Cardinality({j \in 1..Len(rows) : Truthy(rows[j].Date)})

DistinctDates(rows) ==
  Cardinality({rows[i].Date : i \in {j \in 1..Len(rows) : Truthy(rows[j].Date)}})

\* the values processData sets from the maps it filled
AggregatesOf(filteredRows, staff, modalityList) ==
  [staffData |-> SortByCountDesc(SelectSeq(AsStaffData(staff), Positive)),
   modalityData |-> SortByCountDesc(modalityList),
   staffModalityData |-> SortByTotalDesc(AsStaffModalityData(staff)),
   aggregatedModalityData |-> SortByCountDesc(SelectSeq(modalityList, Positive)),
   totalStudies |-> Len(filteredRows),
   workingDays |-> DistinctDates(filteredRows)]

\* the aggregates processData sets from the filtered rows
Aggregates(filteredRows) ==
  AggregatesOf(filteredRows,
               StaffEntries(filteredRows,
                            KeysInOrder([i \in 1..Len(filteredRows) |-> RowSigner(filteredRows[i])], {})),
               ModalityEntries(filteredRows,
                               KeysInOrder([i \in 1..Len(filteredRows) |-> RowModality(filteredRows[i])], {})))

\* the option lists are set where the closure sees them empty
WithOptions(s, options) ==
  [s EXCEPT !.loading = FALSE,
            !.availableModalities = IF Len(@) = 0 THEN options.modalities ELSE @,
            !.availableStatuses = IF Len(@) = 0 THEN options.statuses ELSE @,
            !.availableRadiologists = IF Len(@) = 0 THEN options.radiologists ELSE @]

WithAggregates(s, agg) ==
  [s EXCEPT !.error = NoError,
            !.staffData = agg.staffData,
            !.modalityData = agg.modalityData,
            !.staffModalityData = agg.staffModalityData,
            !.aggregatedModalityData = agg.aggregatedModalityData,
            !.totalStudies = agg.totalStudies,
            !.workingDays = agg.workingDays]

\* StaffProductivityPage.processData(rows) on the page state s: the state after
\* the call. A throw inside the try sets the error and leaves the aggregates.
processData(s, rows) ==
  IF FilterThrows(s, rows)
  THEN [WithOptions(s, getAvailableFilterOptions(rows)) EXCEPT !.error = ProcessingError]
  ELSE WithAggregates(WithOptions(s, getAvailableFilterOptions(rows)),
                      Aggregates(FilteredRows(s, rows)))

\* ------------------------------------------------------------------------
\* Inputs: the rows, files and filter values the model draws from
\* ------------------------------------------------------------------------
Chars_CT == <<"C", "T">>

Chars_MR == <<"M", "R">>

Chars_Final == <<"F", "i", "n", "a", "l">>

Chars_Prelim == <<"P", "r", "e", "l", "i", "m">>

Chars_DrA == <<"D", "r", ".", " ", "A">>

Chars_DrB == <<"D", "r", ".", " ", "B">>

Date_0101 == <<"0", "1", "/", "0", "1", "/", "2", "0", "2", "4">>

Date_0102 == <<"0", "1", "/", "0", "2", "/", "2", "0", "2", "4">>

Iso_0101 == <<"2", "0", "2", "4", "-", "0", "1", "-", "0", "1">>

Iso_0102 == <<"2", "0", "2", "4", "-", "0", "1", "-", "0", "2">>

Time_0000 == <<"0", "0", ":", "0", "0">>

Time_2359 == <<"2", "3", ":", "5", "9">>

Time_0930 == <<"0", "9", ":", "3", "0">>

Time_1015 == <<"1", "0", ":", "1", "5">>

Date_0103 == <<"0", "1", "/", "0", "3", "/", "2", "0", "2", "4">>

Time_0915AM == <<"0", "9", ":", "1", "5", " ", "A", "M">>

Time_945 == <<"9", ":", "4", "5">>

Time_1159pm == <<" ", "1", "1", ":", "5", "9", " ", "p", "m">>

Time_noon == <<"n", "o", "o", "n">>

\* rows the filters tell apart: hours 9, 9 and 23; two modalities and one
\* missing; two statuses; two signers and one missing; a date after the date
\* bounds, one inside them as a string and one inside them as a calendar date
FilterPool ==
  {Row(Str(Date_0103), Str(Time_0915AM), Str(Chars_CT), Str(Chars_Final), Str(Chars_DrA)),
   Row(Str(Iso_0102), Str(Time_945), Str(Chars_MR), Str(Chars_Prelim), Str(Chars_DrB)),
   Row(Str(Date_0102), Str(Time_1159pm), Undefined, Str(Chars_Final), Undefined)}

\* rows for ingestion alone: the rows above, and rows with a time without the
\* pattern, a missing date and status, hour 0, an hour above 23, a blank time,
\* a missing time and a time that is a number
RowPool ==
  FilterPool \cup
  {Row(Str(Date_0101), Str(Time_noon), Str(Chars_MR), Str(Chars_Final), Str(Chars_DrB)),
   Row(Undefined, Str(<<"1", "2", ":", "0", "5", " ", "A", "M">>),
       Str(Chars_CT), Undefined, Str(Chars_DrA)),
   Row(Str(Date_0101), Str(<<"2", "5", ":", "1", "0">>),
       Str(Chars_CT), Str(Chars_Prelim), Str(Chars_DrB)),
   Row(Str(Date_0101), Str(<<" ", " ">>),
       Str(Chars_MR), Str(Chars_Prelim), Str(Chars_DrA)),
   Row(Str(Date_0102), Undefined,
       Str(Chars_CT), Str(Chars_Final), Str(Chars_DrA)),
   Row(Str(Date_0102), Num(<<"0", ".", "3", "9">>),
       Str(Chars_CT), Str(Chars_Final), Str(Chars_DrA)),
   Row(Str(Date_0101), Str(<<"2", "3", ":", "7", "5">>),
       Str(Chars_CT), Str(Chars_Final), Str(Chars_DrA))}

RECURSIVE SeqsUpTo(_, _)
SeqsUpTo(S, n) ==
  IF n = 0 THEN {<<>>}
  ELSE LET shorter == SeqsUpTo(S, n - 1)
       IN shorter \cup {Append(q, x) : q \in {r \in shorter : Len(r) = n - 1}, x \in S}

\* the data sets of the application's specification and of the ingestion's
DataSets == SeqsUpTo(FilterPool, MaxRows)

IngestDataSets == SeqsUpTo(RowPool, MaxRows)

\* values a date input and a time input deliver; the empty string when cleared
DateStarts == {<<>>, Iso_0101}

DateEnds == {<<>>, Iso_0102}

TimeStarts == {<<>>, Time_0000, Time_0930}

TimeEnds == {<<>>, Time_2359, Time_1015}

\* ------------------------------------------------------------------------
\* State
\* ------------------------------------------------------------------------
VARIABLES
  store,          \* the localStorage entry 'radiology_data'
  route,          \* the route whose page is mounted
  effectPending,  \* TRUE until the mounted page's mount effect has run (HomePage has none)
  uncaught,       \* TRUE once an exception has escaped a handler of the page
  home,           \* state of HomePage
  wf,             \* state of WorkflowPage
  sp,             \* state of StaffProductivityPage
  reprocessDue,   \* TRUE while a change of the filters or of originalData of
                  \* StaffProductivityPage is committed and the effect that
                  \* reprocesses originalData has not run yet
  reads,          \* the bag of the uploads of HomePage that wait for their file to
                  \* be read, each with its own continuation
  probe           \* a time string and what the two parsers return for it

vars == <<store, route, effectPending, uncaught, home, wf, sp, reprocessDue, reads, probe, dateFns>>

Routes == {"/", "/workflow", "/staff-productivity"}

\* the store entry: absent, a string that is not JSON, or the JSON of rows
NoEntry == [kind |-> "absent", rows |-> <<>>]

NotJson == [kind |-> "corrupt", rows |-> <<>>]

\* JSON.stringify(rows): keys whose value is undefined are left out, strings
\* and numbers are kept, so JSON.parse gives back rows with the same fields
JsonOf(rows) == [kind |-> "json", rows |-> rows]

NoRange == [start |-> <<>>, end |-> <<>>]

FullDay == [start |-> Time_0000, end |-> Time_2359]

HomeInit == [loading |-> FALSE, error |-> NoError]

WorkflowInit ==
  [hourlyData |-> <<>>, totalEntries |-> 0, timeFormat |-> "24",
   selectedModalities |-> <<>>, selectedStatuses |-> <<>>, selectedSigners |-> <<>>,
   availableModalities |-> <<>>, availableStatuses |-> <<>>, availableSigners |-> <<>>,
   dateRange |-> NoRange, timeRange |-> FullDay]

StaffInit ==
  [loading |-> FALSE, error |-> NoError, staffData |-> <<>>,
   dateRange |-> NoRange, timeRange |-> FullDay,
   selectedModalities |-> <<>>, selectedStatuses |-> <<>>, selectedRadiologists |-> <<>>,
   availableModalities |-> <<>>, availableStatuses |-> <<>>, availableRadiologists |-> <<>>,
   totalStudies |-> 0, workingDays |-> 0, modalityData |-> <<>>,
   staffModalityData |-> <<>>, aggregatedModalityData |-> <<>>, originalData |-> <<>>]

NoProbe == [hourDigits |-> 0, marker |-> "none", timeStr |-> <<>>, timeInfo |-> Null, staffTime |-> Null]

\* the uploads that wait for their file, once every page is unmounted: an
\* upload is attached while the HomePage that started it is mounted; the
\* continuation of a detached upload still runs, its setters reach no page
Detached(rs) ==
  [read \in {[r EXCEPT !.attached = FALSE] : r \in BagToSet(rs)} |->
     CopiesIn(read, rs) + CopiesIn([read EXCEPT !.attached = TRUE], rs)]

\* the page of route r is mounted afresh, every other page is unmounted
Mounted(r) ==
  /\ route' = r
  /\ effectPending' = (r # "/")
  /\ uncaught' = FALSE
  /\ home' = HomeInit
  /\ wf' = WorkflowInit
  /\ sp' = StaffInit
  /\ reprocessDue' = FALSE

Init ==
  /\ store \in {NoEntry, NotJson} \cup {JsonOf(rows) : rows \in DataSets}
  /\ route \in Routes
  /\ effectPending = (route # "/")
  /\ uncaught = FALSE
  /\ home = HomeInit
  /\ wf = WorkflowInit
  /\ sp = StaffInit
  /\ reprocessDue = FALSE
  /\ reads = EmptyBag
  /\ probe = NoProbe
  /\ dateFns \in DateLibraries

\* ------------------------------------------------------------------------
\* Layout and HomePage
\* ------------------------------------------------------------------------
\* a Link of the Layout is followed; an effect that is due runs before the
\* next event is handled
Navigate(r) ==
  /\ r # route
  /\ ~reprocessDue
  /\ Mounted(r)
  /\ reads' = Detached(reads)
  /\ UNCHANGED <<store, probe, dateFns>>

UnsupportedError == "Unsupported file format. Please upload an Excel, CSV, or PDF file."

FileError == "Error processing file. Please check the file format and try again."

PdfError == "Error processing PDF file. Please check the format and try again."

\* a file to upload: its extension, and the rows its extraction yields when
\* the file can be read
File(ext, readable, rows) == [ext |-> ext, readable |-> readable, rows |-> rows]

\* most uploads that wait for their file at the same time
MaxReads == 2

\* HomePage.handleFileUpload for the file, up to its first await: the input is
\* disabled while loading; a file of another extension is refused at once
handleFileUpload(file) ==
  /\ route = "/" /\ ~home.loading
  /\ IF file.ext \in {"xlsx", "csv", "pdf"}
     THEN /\ BagCardinality(reads) < MaxReads
          /\ home' = [loading |-> TRUE, error |-> NoError]
          /\ reads' = reads (+) SetToBag({[file |-> file, attached |-> TRUE]})
     ELSE /\ home' = [loading |-> FALSE, error |-> UnsupportedError]
          /\ UNCHANGED reads
  /\ UNCHANGED <<store, route, effectPending, uncaught, wf, sp, reprocessDue, probe, dateFns>>

\* handleFileUploadResumed navigating without the rows written
handleFileUploadResumed_notWritten(read) ==
  /\ BagIn(read, reads)
  /\ ~reprocessDue
  /\ IF read.file.readable
     THEN /\ store' = store
          /\ IF route = "/workflow"
             THEN /\ reads' = reads (-) SetToBag({read})
                  /\ UNCHANGED <<route, effectPending, uncaught, home, wf, sp, reprocessDue>>
             ELSE /\ Mounted("/workflow")
                  /\ reads' = Detached(reads (-) SetToBag({read}))
     ELSE /\ home' = IF read.attached
                     THEN [loading |-> FALSE,
                           error |-> IF read.file.ext = "pdf" THEN PdfError ELSE FileError]
                     ELSE home
          /\ reads' = reads (-) SetToBag({read})
          /\ UNCHANGED <<store, route, effectPending, uncaught, wf, sp, reprocessDue>>
  /\ UNCHANGED <<probe, dateFns>>

\* HomePage.handleFileUpload after its await, once the file has been read or
\* has failed to be: the rows are written and "/workflow" is navigated to, which
\* mounts WorkflowPage unless it is the page shown; or the error is set, which
\* has no effect once the HomePage of the upload is unmounted
handleFileUploadResumed(read) ==
  /\ BagIn(read, reads)
  /\ ~reprocessDue
  /\ IF read.file.readable
     THEN \* HomePage.processTimestamps: setItem, then navigate
          /\ store' = JsonOf(read.file.rows)
          /\ IF route = "/workflow"
             THEN /\ reads' = reads (-) SetToBag({read})
                  /\ UNCHANGED <<route, effectPending, uncaught, home, wf, sp, reprocessDue>>
             ELSE /\ Mounted("/workflow")
                  /\ reads' = Detached(reads (-) SetToBag({read}))
     ELSE /\ home' = IF read.attached
                     THEN [loading |-> FALSE,
                           error |-> IF read.file.ext = "pdf" THEN PdfError ELSE FileError]
                     ELSE home
          /\ reads' = reads (-) SetToBag({read})
          /\ UNCHANGED <<store, route, effectPending, uncaught, wf, sp, reprocessDue>>
  /\ UNCHANGED <<probe, dateFns>>

\* ------------------------------------------------------------------------
\* WorkflowPage handlers
\* ------------------------------------------------------------------------
\* the page state once the setters called by processTimestamps have applied
WorkflowLoaded(w, r) ==
  [w EXCEPT !.hourlyData = r.hourlyData,
            !.totalEntries = r.totalEntries,
            !.availableModalities = r.availableModalities,
            !.availableStatuses = r.availableStatuses,
            !.availableSigners = r.availableSigners]

\* WorkflowMount with an absent entry read as an empty record set
WorkflowMount_absentIsEmpty ==
  /\ route = "/workflow" /\ effectPending
  /\ IF store.kind = "corrupt"
     THEN /\ uncaught' = TRUE
          /\ effectPending' = FALSE
          /\ UNCHANGED <<route, home, wf, sp, reprocessDue, reads>>
     ELSE /\ wf' = WorkflowLoaded(wf, processTimestamps(store.rows))
          /\ effectPending' = FALSE
          /\ UNCHANGED <<route, uncaught, home, sp, reprocessDue, reads>>
  /\ UNCHANGED <<store, probe, dateFns>>

\* the mount effect
WorkflowMount ==
  /\ route = "/workflow" /\ effectPending
  /\ IF store.kind = "absent" THEN Mounted("/") /\ reads' = Detached(reads)
     ELSE IF store.kind = "corrupt"
     THEN \* JSON.parse throws, nothing catches it
          /\ uncaught' = TRUE
          /\ effectPending' = FALSE
          /\ UNCHANGED <<route, home, wf, sp, reprocessDue, reads>>
     ELSE /\ wf' = WorkflowLoaded(wf, processTimestamps(store.rows))
          /\ effectPending' = FALSE
          /\ UNCHANGED <<route, uncaught, home, sp, reprocessDue, reads>>
  /\ UNCHANGED <<store, probe, dateFns>>

\* the number of filter controls that are away from their default
Changes(w, selectedSigners) ==
  Len(w.selectedModalities) + Len(w.selectedStatuses) + Len(selectedSigners)
  + (IF w.dateRange.start # <<>> THEN 1 ELSE 0) + (IF w.dateRange.end # <<>> THEN 1 ELSE 0)
  + (IF w.timeRange.start # Time_0000 THEN 1 ELSE 0)
  + (IF w.timeRange.end # Time_2359 THEN 1 ELSE 0)

\* a checkbox change: checked appends the value, unchecked removes it
CheckboxChange(prev, value, checked) ==
  LET Other(item) == item # value
  IN IF checked THEN Append(prev, value) ELSE SelectSeq(prev, Other)

WorkflowReady == route = "/workflow" /\ ~effectPending /\ ~uncaught

\* the page state becomes w by a filter control of WorkflowPage
\* WorkflowSet with the filtered buckets written over the ingested ones
WorkflowSet_bucketsOverwritten(w) ==
  /\ WorkflowReady
  /\ Changes(w, w.selectedSigners) + (IF w.timeFormat # "24" THEN 1 ELSE 0) <= MaxChanges
  /\ wf' = [w EXCEPT !.hourlyData = filteredData(w),
                     !.totalEntries = SumCounts(filteredData(w))]
  /\ UNCHANGED <<store, route, effectPending, uncaught, home, sp, reprocessDue, reads, probe, dateFns>>

WorkflowSet(w) ==
  /\ WorkflowReady
  /\ Changes(w, w.selectedSigners) + (IF w.timeFormat # "24" THEN 1 ELSE 0) <= MaxChanges
  /\ wf' = w
  /\ UNCHANGED <<store, route, effectPending, uncaught, home, sp, reprocessDue, reads, probe, dateFns>>

WorkflowModalityChange ==
  \E i \in 1..Len(wf.availableModalities) :
    LET modality == wf.availableModalities[i] IN
      WorkflowSet([wf EXCEPT !.selectedModalities =
                     CheckboxChange(@, modality, ~Includes(@, modality))])

WorkflowStatusChange ==
  \E i \in 1..Len(wf.availableStatuses) :
    LET status == wf.availableStatuses[i] IN
      WorkflowSet([wf EXCEPT !.selectedStatuses =
                     CheckboxChange(@, status, ~Includes(@, status))])

WorkflowSignerChange ==
  \E i \in 1..Len(wf.availableSigners) :
    LET signer == wf.availableSigners[i] IN
      WorkflowSet([wf EXCEPT !.selectedSigners =
                     CheckboxChange(@, signer, ~Includes(@, signer))])

WorkflowDateStartChange ==
  \E v \in DateStarts : v # wf.dateRange.start /\ WorkflowSet([wf EXCEPT !.dateRange.start = v])

WorkflowDateEndChange ==
  \E v \in DateEnds : v # wf.dateRange.end /\ WorkflowSet([wf EXCEPT !.dateRange.end = v])

WorkflowTimeStartChange ==
  \E v \in TimeStarts : v # wf.timeRange.start /\ WorkflowSet([wf EXCEPT !.timeRange.start = v])

WorkflowTimeEndChange ==
  \E v \in TimeEnds : v # wf.timeRange.end /\ WorkflowSet([wf EXCEPT !.timeRange.end = v])

WorkflowTimeFormat ==
  \E f \in {"12", "24"} : f # wf.timeFormat /\ WorkflowSet([wf EXCEPT !.timeFormat = f])

\* WorkflowPage.clearFilters
WorkflowClearFilters ==
  WorkflowSet([wf EXCEPT !.selectedModalities = <<>>, !.selectedStatuses = <<>>,
                         !.selectedSigners = <<>>, !.dateRange = NoRange,
                         !.timeRange = FullDay])

\* the Export Report button: the document is written, the page is unchanged
WorkflowExport ==
  /\ WorkflowReady
  /\ generateSummaryReport(wf).saved
  /\ UNCHANGED vars

\* ------------------------------------------------------------------------
\* StaffProductivityPage handlers
\* ------------------------------------------------------------------------
\* the effect that follows every change of the filters or of originalData
Reprocess(s) == IF Len(s.originalData) > 0 THEN processData(s, s.originalData) ELSE s

\* the page state once setOriginalData and the three option setters have applied
StaffLoaded(s, data, options) ==
  [s EXCEPT !.originalData = data,
            !.availableModalities = options.modalities,
            !.availableStatuses = options.statuses,
            !.availableRadiologists = options.radiologists]

\* the mount effect: with rows decoded it sets originalData and the options and
\* calls processData on the rows; the page is rendered with originalData
\* changed, which makes the reprocessing effect due
StaffMount ==
  /\ route = "/staff-productivity" /\ effectPending
  /\ IF store.kind = "absent" THEN Mounted("/") /\ reads' = Detached(reads)
     ELSE IF store.kind = "corrupt"
     THEN \* JSON.parse throws inside the try
          /\ sp' = [sp EXCEPT !.error = StoredDataError]
          /\ effectPending' = FALSE
          /\ UNCHANGED <<route, uncaught, home, wf, reprocessDue, reads>>
     ELSE /\ sp' = processData(StaffLoaded(sp, store.rows, getAvailableFilterOptions(store.rows)),
                               store.rows)
          /\ effectPending' = FALSE
          /\ reprocessDue' = TRUE
          /\ UNCHANGED <<route, uncaught, home, wf, reads>>
  /\ UNCHANGED <<store, probe, dateFns>>

\* the page is loaded and no effect of it is due
StaffReady == route = "/staff-productivity" /\ ~effectPending /\ ~uncaught /\ ~reprocessDue

\* the filters become those of s by a control of StaffProductivityPage: the
\* handler calls the setters of the filters only, and the page is rendered
\* with the new filters and the aggregates it had
StaffSet(s) ==
  /\ StaffReady
  /\ Changes(s, s.selectedRadiologists) <= MaxChanges
  /\ sp' = s
  /\ reprocessDue' = TRUE
  /\ UNCHANGED <<store, route, effectPending, uncaught, home, wf, reads, probe, dateFns>>

\* the effect on the filters and originalData runs after the render that
\* follows a change of either
StaffReprocess ==
  /\ route = "/staff-productivity" /\ reprocessDue
  /\ sp' = Reprocess(sp)
  /\ reprocessDue' = FALSE
  /\ UNCHANGED <<store, route, effectPending, uncaught, home, wf, reads, probe, dateFns>>

\* StaffProductivityPage.handleCheckboxChange with each of the three setters:
\* the value of the event is the text of the option, and the box shows checked
\* when the selection includes the option itself
StaffModalityChange ==
  \E i \in 1..Len(sp.availableModalities) :
    LET option == sp.availableModalities[i] IN
      StaffSet([sp EXCEPT !.selectedModalities =
                  CheckboxChange(@, Str(ToText(option)), ~Includes(@, option))])

StaffStatusChange ==
  \E i \in 1..Len(sp.availableStatuses) :
    LET option == sp.availableStatuses[i] IN
      StaffSet([sp EXCEPT !.selectedStatuses =
                  CheckboxChange(@, Str(ToText(option)), ~Includes(@, option))])

StaffRadiologistChange ==
  \E i \in 1..Len(sp.availableRadiologists) :
    LET option == sp.availableRadiologists[i] IN
      StaffSet([sp EXCEPT !.selectedRadiologists =
                  CheckboxChange(@, Str(ToText(option)), ~Includes(@, option))])

StaffDateStartChange ==
  \E v \in DateStarts : v # sp.dateRange.start /\ StaffSet([sp EXCEPT !.dateRange.start = v])

StaffDateEndChange ==
  \E v \in DateEnds : v # sp.dateRange.end /\ StaffSet([sp EXCEPT !.dateRange.end = v])

StaffTimeStartChange ==
  \E v \in TimeStarts : v # sp.timeRange.start /\ StaffSet([sp EXCEPT !.timeRange.start = v])

StaffTimeEndChange ==
  \E v \in TimeEnds : v # sp.timeRange.end /\ StaffSet([sp EXCEPT !.timeRange.end = v])

\* StaffProductivityPage.clearFilters
StaffClearFilters ==
  StaffSet([sp EXCEPT !.dateRange = NoRange, !.timeRange = FullDay,
                      !.selectedModalities = <<>>, !.selectedStatuses = <<>>,
                      !.selectedRadiologists = <<>>])

\* ------------------------------------------------------------------------
\* Specification of the application
\* ------------------------------------------------------------------------
\* the files that are uploaded: a spreadsheet of two rows, a csv file and a
\* pdf file that yield no row, an unreadable file of each kind, and a file of
\* an unsupported kind
UploadedRows ==
  <<Row(Str(Date_0103), Str(Time_0915AM), Str(Chars_CT), Str(Chars_Final), Str(Chars_DrA)),
    Row(Str(Iso_0102), Str(Time_945), Str(Chars_MR), Str(Chars_Prelim), Str(Chars_DrB))>>

Files ==
  {File("xlsx", TRUE, UploadedRows)}
  \cup {File(ext, TRUE, <<>>) : ext \in {"csv", "pdf"}}
  \cup {File(ext, FALSE, <<>>) : ext \in {"xlsx", "csv", "pdf"}}
  \cup {File("txt", TRUE, <<>>)}

Upload == \E file \in Files : handleFileUpload(file)

UploadResume == \E read \in BagToSet(reads) : handleFileUploadResumed(read)

\* the steps of the two analytic views and of the Layout
ViewsNext ==
  \/ \E r \in Routes : Navigate(r)
  \/ WorkflowMount
  \/ WorkflowModalityChange
  \/ WorkflowStatusChange
  \/ WorkflowSignerChange
  \/ WorkflowDateStartChange
  \/ WorkflowDateEndChange
  \/ WorkflowTimeStartChange
  \/ WorkflowTimeEndChange
  \/ WorkflowTimeFormat
  \/ WorkflowClearFilters
  \/ WorkflowExport
  \/ StaffMount
  \/ StaffModalityChange
  \/ StaffStatusChange
  \/ StaffRadiologistChange
  \/ StaffDateStartChange
  \/ StaffDateEndChange
  \/ StaffTimeStartChange
  \/ StaffTimeEndChange
  \/ StaffClearFilters
  \/ StaffReprocess

Next ==
  \/ Upload
  \/ UploadResume
  \/ ViewsNext

Spec == Init /\ [][Next]_vars

\* ------------------------------------------------------------------------
\* Specification of the application while no upload is under way: every store
\* an upload leaves is an initial store. Every Date of DataSets is a string, so
\* that parse is never handed another value and the two libraries do the same;
\* one of them stands for both
\* ------------------------------------------------------------------------
ViewsInit == Init /\ dateFns = "matching"

SpecViews == ViewsInit /\ [][ViewsNext]_vars

\* ------------------------------------------------------------------------
\* Specification of ingestion alone: an analytic page is opened on a store
\* that holds any of the ingestion data sets, and its mount effect runs
\* ------------------------------------------------------------------------
IngestInit ==
  /\ store \in {NoEntry, NotJson} \cup {JsonOf(rows) : rows \in IngestDataSets}
  /\ route \in {"/workflow", "/staff-productivity"}
  /\ effectPending = TRUE
  /\ uncaught = FALSE
  /\ home = HomeInit
  /\ wf = WorkflowInit
  /\ sp = StaffInit
  /\ reprocessDue = FALSE
  /\ reads = EmptyBag
  /\ probe = NoProbe
  /\ dateFns \in DateLibraries

IngestNext == WorkflowMount \/ StaffMount \/ StaffReprocess

SpecIngest == IngestInit /\ [][IngestNext]_vars

\* ------------------------------------------------------------------------
\* Specification of the time parsers alone
\* ------------------------------------------------------------------------
\* largest value of the hour digits that is tried
MaxHourDigits == 25

Minutes == {<<"0", "0">>, <<"0", "5">>, <<"4", "5">>, <<"5", "9">>}

\* how a marker is written behind the minutes
Markers ==
  {<<>>, <<" ", "A", "M">>, <<" ", "P", "M">>, <<"a", "m">>, <<"p", "m">>,
   <<" ", " ", "P", "m">>}

\* the marker of a written marker, as the claim names it
MarkerName(written) ==
  IF written = <<>> THEN "none"
  ELSE IF UpperChar(written[Len(written) - 1]) = "A" THEN "AM" ELSE "PM"

\* the time string written from hour digits h (one or two digits), minutes
\* mm and a marker
WrittenTime(h, padded, mm, written) ==
  (IF padded THEN PadStart2(ToStr(h)) ELSE ToStr(h)) \o <<":">> \o mm \o written

ParseInit ==
  /\ store = NoEntry /\ route = "/" /\ effectPending = FALSE /\ uncaught = FALSE
  /\ home = HomeInit /\ wf = WorkflowInit /\ sp = StaffInit
  /\ reprocessDue = FALSE /\ reads = EmptyBag
  /\ dateFns \in DateLibraries
  /\ \E h \in 0..MaxHourDigits, padded \in BOOLEAN, mm \in Minutes, written \in Markers :
       probe = [NoProbe EXCEPT !.hourDigits = h, !.marker = MarkerName(written),
                               !.timeStr = WrittenTime(h, padded, mm, written)]

\* both parsers are applied to the time string
Probe ==
  /\ probe.timeStr # <<>> /\ ~probe.timeInfo.ok
  /\ probe' = [probe EXCEPT !.timeInfo = extractTimeFromString(probe.timeStr),
                            !.staffTime = Staff_extractTimeFromString(probe.timeStr)]
  /\ UNCHANGED <<store, route, effectPending, uncaught, home, wf, sp, reprocessDue, reads, dateFns>>

ParseNext == Probe

SpecParse == ParseInit /\ [][ParseNext]_vars

\* ------------------------------------------------------------------------
\* Specification of the productivity view alone, over stored rows that
\* include a row without a Time whose date lies after the date range
\* ------------------------------------------------------------------------
Chars_constructor == <<"c", "o", "n", "s", "t", "r", "u", "c", "t", "o", "r">>

StaffPool ==
  FilterPool \cup
  {Row(Str(Date_0103), Undefined, Str(Chars_CT), Str(Chars_Final), Str(Chars_DrA)),
   Row(Str(Date_0101), Str(Time_0915AM), Str(Chars_constructor), Str(Chars_Final), Str(Chars_DrA))}

StaffDataSets == SeqsUpTo(StaffPool, MaxRows)

StaffViewInit ==
  /\ store \in {JsonOf(rows) : rows \in StaffDataSets}
  /\ route = "/staff-productivity"
  /\ effectPending = TRUE
  /\ uncaught = FALSE
  /\ home = HomeInit
  /\ wf = WorkflowInit
  /\ sp = StaffInit
  /\ reprocessDue = FALSE
  /\ reads = EmptyBag
  /\ probe = NoProbe
  /\ dateFns \in DateLibraries

StaffViewNext ==
  \/ StaffMount
  \/ StaffModalityChange
  \/ StaffStatusChange
  \/ StaffRadiologistChange
  \/ StaffDateStartChange
  \/ StaffDateEndChange
  \/ StaffTimeStartChange
  \/ StaffTimeEndChange
  \/ StaffClearFilters
  \/ StaffReprocess

SpecStaff == StaffViewInit /\ [][StaffViewNext]_vars

\* ------------------------------------------------------------------------
\* Specification of the two analytic views over the three stored rows
\*   01/01/2024 09:15 AM CT Final  Dr. A
\*   01/01/2024 09:45 AM MR Prelim Dr. B
\*   01/02/2024 14:00    CT Final  Dr. A
\* ------------------------------------------------------------------------
Time_0945AM == <<"0", "9", ":", "4", "5", " ", "A", "M">>

Time_1400 == <<"1", "4", ":", "0", "0">>

ScenarioRows ==
  <<Row(Str(Date_0101), Str(Time_0915AM), Str(Chars_CT), Str(Chars_Final), Str(Chars_DrA)),
    Row(Str(Date_0101), Str(Time_0945AM), Str(Chars_MR), Str(Chars_Prelim), Str(Chars_DrB)),
    Row(Str(Date_0102), Str(Time_1400), Str(Chars_CT), Str(Chars_Final), Str(Chars_DrA))>>

ScenarioInit ==
  /\ store = JsonOf(ScenarioRows)
  /\ route \in {"/workflow", "/staff-productivity"}
  /\ effectPending = TRUE
  /\ uncaught = FALSE
  /\ home = HomeInit
  /\ wf = WorkflowInit
  /\ sp = StaffInit
  /\ reprocessDue = FALSE
  /\ reads = EmptyBag
  /\ probe = NoProbe
  /\ dateFns \in DateLibraries

ScenarioNext ==
  \/ WorkflowMount
  \/ WorkflowModalityChange
  \/ WorkflowStatusChange
  \/ WorkflowSignerChange
  \/ WorkflowDateStartChange
  \/ WorkflowDateEndChange
  \/ WorkflowTimeStartChange
  \/ WorkflowTimeEndChange
  \/ WorkflowTimeFormat
  \/ WorkflowClearFilters
  \/ WorkflowExport
  \/ StaffMount
  \/ StaffModalityChange
  \/ StaffStatusChange
  \/ StaffRadiologistChange
  \/ StaffDateStartChange
  \/ StaffDateEndChange
  \/ StaffTimeStartChange
  \/ StaffTimeEndChange
  \/ StaffClearFilters
  \/ StaffReprocess

SpecScenario == ScenarioInit /\ [][ScenarioNext]_vars

\* ------------------------------------------------------------------------
\* Specification of the workflow view alone, over stored rows of which two
\* fall into hour 13 on the same date, written "1:05 PM" and "13:05".
\* WorkflowPage does not call the date library; one of the two stands for both
\* ------------------------------------------------------------------------
Time_105PM == <<"1", ":", "0", "5", " ", "P", "M">>

Time_1305 == <<"1", "3", ":", "0", "5">>

WorkflowPool ==
  {Row(Str(Date_0101), Str(Time_105PM), Str(Chars_CT), Str(Chars_Final), Str(Chars_DrA)),
   Row(Str(Date_0101), Str(Time_1305), Str(Chars_MR), Str(Chars_Prelim), Str(Chars_DrB)),
   Row(Str(Iso_0102), Str(Time_945), Str(Chars_MR), Str(Chars_Final), Undefined)}

WorkflowDataSets == SeqsUpTo(WorkflowPool, MaxRows)

WorkflowViewInit ==
  /\ store \in {JsonOf(rows) : rows \in WorkflowDataSets}
  /\ route = "/workflow"
  /\ effectPending = TRUE
  /\ uncaught = FALSE
  /\ home = HomeInit
  /\ wf = WorkflowInit
  /\ sp = StaffInit
  /\ reprocessDue = FALSE
  /\ reads = EmptyBag
  /\ probe = NoProbe
  /\ dateFns = "matching"

WorkflowViewNext ==
  \/ WorkflowMount
  \/ WorkflowModalityChange
  \/ WorkflowStatusChange
  \/ WorkflowSignerChange
  \/ WorkflowDateStartChange
  \/ WorkflowDateEndChange
  \/ WorkflowTimeStartChange
  \/ WorkflowTimeEndChange
  \/ WorkflowTimeFormat
  \/ WorkflowClearFilters
  \/ WorkflowExport

SpecWorkflow == WorkflowViewInit /\ [][WorkflowViewNext]_vars

\* ------------------------------------------------------------------------
\* Specification of the selections: either analytic page on stored rows, with
\* its checkboxes, its clearFilters and one bound of each of its ranges
\* ------------------------------------------------------------------------
AnalyticRoutes == {"/workflow", "/staff-productivity"}

\* the rows of the application's specification and a row whose modality is a
\* number, as a numeric cell of a spreadsheet gives it
SelectionPool ==
  FilterPool \cup
  {Row(Str(Date_0101), Str(Time_0915AM), Num(<<"5">>), Str(Chars_Final), Str(Chars_DrA))}

SelectionInit ==
  /\ store \in {JsonOf(rows) : rows \in SeqsUpTo(SelectionPool, MaxRows)}
  /\ route \in AnalyticRoutes
  /\ effectPending = TRUE
  /\ uncaught = FALSE
  /\ home = HomeInit
  /\ wf = WorkflowInit
  /\ sp = StaffInit
  /\ reprocessDue = FALSE
  /\ reads = EmptyBag
  /\ probe = NoProbe
  /\ dateFns \in DateLibraries

SelectionNext ==
  \/ \E r \in AnalyticRoutes : Navigate(r)
  \/ WorkflowMount
  \/ WorkflowModalityChange
  \/ WorkflowStatusChange
  \/ WorkflowSignerChange
  \/ WorkflowDateStartChange
  \/ WorkflowTimeEndChange
  \/ WorkflowClearFilters
  \/ StaffMount
  \/ StaffModalityChange
  \/ StaffStatusChange
  \/ StaffRadiologistChange
  \/ StaffDateStartChange
  \/ StaffTimeEndChange
  \/ StaffClearFilters
  \/ StaffReprocess

SpecSelection == SelectionInit /\ [][SelectionNext]_vars

\* ------------------------------------------------------------------------
\* Specification of the date range of the productivity view: stored rows with
\* a date inside the range, a date that is not month/day/year, a date after
\* the range with a space behind it, and the date 01/02/2024 as the serial
\* number sheet_to_json gives for a date cell
\* ------------------------------------------------------------------------
Serial_0102 == <<"4", "5", "2", "9", "3">>

DatePool ==
  {Row(Str(Date_0102), Str(Time_945), Str(Chars_CT), Str(Chars_Final), Str(Chars_DrA)),
   Row(Str(Iso_0102), Str(Time_945), Str(Chars_MR), Str(Chars_Prelim), Str(Chars_DrB)),
   Row(Str(Date_0103 \o <<" ">>), Str(Time_945), Str(Chars_CT), Str(Chars_Final), Str(Chars_DrB)),
   Row(Num(Serial_0102), Str(Time_945), Str(Chars_CT), Str(Chars_Final), Str(Chars_DrA))}

DatesInit ==
  /\ store \in {JsonOf(rows) : rows \in SeqsUpTo(DatePool, MaxRows)}
  /\ route = "/staff-productivity"
  /\ effectPending = TRUE
  /\ uncaught = FALSE
  /\ home = HomeInit
  /\ wf = WorkflowInit
  /\ sp = StaffInit
  /\ reprocessDue = FALSE
  /\ reads = EmptyBag
  /\ probe = NoProbe
  /\ dateFns \in DateLibraries

DatesNext ==
  \/ StaffMount
  \/ StaffDateStartChange
  \/ StaffDateEndChange
  \/ StaffClearFilters
  \/ StaffReprocess

SpecDates == DatesInit /\ [][DatesNext]_vars

\* ------------------------------------------------------------------------
\* Specification of the upload hand-off: the application started on "/" with
\* nothing usable stored, where "/workflow" is entered through an upload only
\* ------------------------------------------------------------------------
UploadInit ==
  /\ store \in {NoEntry, NotJson}
  /\ route = "/"
  /\ effectPending = FALSE
  /\ uncaught = FALSE
  /\ home = HomeInit
  /\ wf = WorkflowInit
  /\ sp = StaffInit
  /\ reprocessDue = FALSE
  /\ reads = EmptyBag
  /\ probe = NoProbe
  /\ dateFns \in DateLibraries

UploadNext ==
  \/ Upload
  \/ UploadResume
  \/ WorkflowMount
  \/ StaffMount
  \/ StaffReprocess
  \/ \E r \in {"/", "/staff-productivity"} : Navigate(r)

SpecUpload == UploadInit /\ [][UploadNext]_vars

\* ------------------------------------------------------------------------
\* Properties
\* ------------------------------------------------------------------------
\* what the time of a row parses to, Null when the time is not a string
TimeOf(row) == IF row.Time.t = "string" THEN extractTimeFromString(Trim(row.Time.v)) ELSE Null

\* the raw time of the row parses to hour h
ParsesToHour(row, h) == TimeOf(row).ok /\ TimeOf(row).hour = h

\* the indices of the rows whose time parses to an hour of the day
ParsedRows(rows) == {i \in 1..Len(rows) : \E h \in Hours : ParsesToHour(rows[i], h)}

\* the record the row is normalized to
EntryOf(row) == EntryDetail(row, Trim(row.Time.v))

\* the number of times e occurs in entries
Times(e, entries) == Cardinality({j \in 1..Len(entries) : entries[j] = e})

\* the hour of a time-range bound, the hour fullDay when the bound is empty
BoundHour(bound, fullDay) == IF bound = <<>> THEN fullDay ELSE ParseInt(Split(bound)[1])

\* the time range with each empty bound replaced by the bound of the full day
FullDayWhereEmpty(range) ==
  [start |-> IF range.start = <<>> THEN Time_0000 ELSE range.start,
   end |-> IF range.end = <<>> THEN Time_2359 ELSE range.end]

\* the row is normalized and passes the time range, the three categorical
\* selections and the date range of the filter criteria of w
SatisfiesEvery(w, row) ==
  /\ \E h \in Hours : /\ ParsesToHour(row, h)
                     /\ h >= BoundHour(w.timeRange.start, 0)
                     /\ h <= BoundHour(w.timeRange.end, 23)
  /\ (w.selectedModalities = <<>> \/ Includes(w.selectedModalities, OrElse(row.Mod, NA)))
  /\ (w.selectedStatuses = <<>> \/ Includes(w.selectedStatuses, OrElse(row.Status, NA)))
  /\ (w.selectedSigners = <<>>
      \/ Includes(w.selectedSigners, OrElse(row.ReportSignedBy, <<>>)))
  /\ (w.dateRange.start = <<>> \/ w.dateRange.end = <<>>
      \/ (/\ StrLeq(w.dateRange.start, ToText(OrElse(row.Date, NA)))
          /\ StrLeq(ToText(OrElse(row.Date, NA)), w.dateRange.end)))

\* C1: in the workflow view, for every row set and every filter criteria, the
\* sum of the counts of the 24 filtered buckets is the number of normalized
\* records that satisfy the time range, modality, status, signer and date
\* range predicates, an empty time bound standing for the full day.
\* The code does not keep this: see C6.
C1_FilteredCountsMatchPredicates ==
  WorkflowReady =>
    SumCounts(filteredData(wf))
      = Cardinality({i \in 1..Len(store.rows) : SatisfiesEvery(wf, store.rows[i])})

\* C2: after processTimestamps has run on a row sequence there are 24 buckets,
\* the sum of their counts is totalEntries, and totalEntries is the number of
\* rows whose time parsed to an hour in 0..23.
C2_CountsSumToTotalEntries ==
  (route = "/workflow" /\ ~effectPending /\ store.kind = "json") =>
    /\ Len(wf.hourlyData) = 24
    /\ SumCounts(wf.hourlyData) = wf.totalEntries
    /\ wf.totalEntries = Cardinality(ParsedRows(store.rows))

\* C2 witness: two rows were ingested, one of them was counted
C2_Witness ==
  /\ route = "/workflow" /\ ~effectPending /\ store.kind = "json"
  /\ Len(store.rows) = 2
  /\ wf.totalEntries = 1
  /\ SumCounts(wf.hourlyData) = 1

\* C3: in both analytic views a row whose Time is missing or unparseable is
\* dropped silently: no error is set, no exception escapes, and every other
\* row is still counted.
\* The productivity view does not keep this for a Time that is missing.
C3_BadTimeRowIsDroppedSilently ==
  (store.kind = "json" /\ ~effectPending) =>
    /\ route = "/workflow" =>
         ~uncaught /\ wf.totalEntries = Cardinality(ParsedRows(store.rows))
    /\ route = "/staff-productivity" =>
         /\ ~uncaught
         /\ sp.error = NoError
         /\ sp.totalStudies = Cardinality(ParsedRows(store.rows))

\* C4: when the stored record set cannot be decoded, each analytic view stays in
\* its empty state with a non-fatal error message, and no exception escapes
\* its mount effect.
\* WorkflowPage does not keep this.
C4_UndecodableStoreIsReported ==
  (store.kind = "corrupt" /\ route # "/" /\ ~effectPending) =>
    /\ ~uncaught
    /\ route = "/staff-productivity" =>
         sp.error = StoredDataError /\ sp.totalStudies = 0 /\ sp.staffData = <<>>
    /\ route = "/workflow" => wf.totalEntries = 0 /\ wf.hourlyData = <<>>

\* C5: when every filtered bucket has count 0, the peak hour on the page and
\* in the summary report is the explicit no-data value N/A, never the label of
\* a bucket.
\* The code shows the label of bucket 0.
C5_EmptySetHasNoPeakHour ==
  (WorkflowReady /\ SumCounts(filteredData(wf)) = 0) =>
    /\ PeakHourCard(wf) = NA
    /\ (~generateSummaryReport(wf).saved \/ generateSummaryReport(wf).peakHour = NA)

\* C6: an empty time-range bound stands for the full day: the workflow view and
\* the productivity view are what they are with the bound of the full day in
\* its place, so that nothing is excluded by the empty bound.
\* Neither view keeps this.
C6_EmptyTimeBoundIsFullDay ==
  /\ WorkflowReady =>
       filteredData(wf) = filteredData([wf EXCEPT !.timeRange = FullDayWhereEmpty(@)])
  /\ StaffReady =>
       /\ sp.totalStudies
            = Reprocess([sp EXCEPT !.timeRange = FullDayWhereEmpty(@)]).totalStudies
       /\ sp.staffData = Reprocess([sp EXCEPT !.timeRange = FullDayWhereEmpty(@)]).staffData

\* the filter criteria of WorkflowPage are at their defaults
DefaultCriteria(w) ==
  /\ w.selectedModalities = <<>> /\ w.selectedStatuses = <<>> /\ w.selectedSigners = <<>>
  /\ w.dateRange = NoRange
  /\ w.timeRange = FullDay

\* C7: with every categorical selection empty, the date range empty and the
\* time range at its full-day default, the filtered workflow view is the
\* unfiltered one: each of the 24 buckets keeps its count and its entries.
C7_DefaultCriteriaAreIdentity ==
  (WorkflowReady /\ DefaultCriteria(wf)) =>
    LET data == filteredData(wf)
    IN /\ Len(data) = 24
       /\ \A i \in 1..24 :
            /\ data[i].count = wf.hourlyData[i].count
            /\ data[i].entries = wf.hourlyData[i].entries

\* C7 witness: two records, one without a signer, seen through default criteria
C7_Witness ==
  /\ WorkflowReady /\ DefaultCriteria(wf)
  /\ wf.totalEntries = 2
  /\ SumCounts(filteredData(wf)) = 2
  /\ \E i \in 1..24 : \E j \in 1..Len(wf.hourlyData[i].entries) :
       wf.hourlyData[i].entries[j].reportSignedBy = Str(<<>>)

\* C8: the entries of unfiltered bucket h are the records of the rows whose raw
\* time parses to hour h, each as often as it was ingested and in no other
\* bucket; a row whose time is absent, has no digits:digits pattern or gives
\* an hour outside 0..23 has no record in any bucket.
C8_BucketsHoldExactlyTheParsedRows ==
  (route = "/workflow" /\ ~effectPending /\ store.kind = "json") =>
    \A h \in Hours :
      LET entries == wf.hourlyData[h + 1].entries
          ofHour == {i \in 1..Len(store.rows) : ParsesToHour(store.rows[i], h)}
      IN /\ Len(entries) = Cardinality(ofHour)
         /\ \A i \in ofHour :
              /\ Times(EntryOf(store.rows[i]), entries)
                   = Cardinality({k \in ofHour : EntryOf(store.rows[k]) = EntryOf(store.rows[i])})
              /\ \A g \in Hours \ {h} :
                   Times(EntryOf(store.rows[i]), wf.hourlyData[g + 1].entries) = 0

\* C8 witness: a row of hour 25 or a row without a time was ingested beside a
\* row of hour 9, and only bucket 9 holds a record
C8_Witness ==
  /\ route = "/workflow" /\ ~effectPending /\ store.kind = "json"
  /\ Len(store.rows) = 2
  /\ \E i \in 1..2 : store.rows[i].Time.t = "undefined" \/ TimeOf(store.rows[i]).hour = 25
  /\ Len(wf.hourlyData[10].entries) = 1
  /\ \A h \in Hours \ {9} : wf.hourlyData[h + 1].entries = <<>>

\* the hour the claim gives for hour digits h and a marker
TableHour(h, marker) ==
  IF marker = "PM" THEN IF h # 12 THEN h + 12 ELSE 12
  ELSE IF marker = "AM" THEN IF h = 12 THEN 0 ELSE h
  ELSE h

\* C9: for hour digits h and a marker, extractTimeFromString of either page
\* gives h + 12 for PM and h # 12, 12 for PM and h = 12, 0 for AM and h = 12,
\* h for AM and h # 12, and h for no marker.
C9_HourTable ==
  probe.timeInfo.ok =>
    /\ probe.timeInfo.hour = TableHour(probe.hourDigits, probe.marker)
    /\ probe.staffTime.ok
    /\ probe.staffTime.hour = TableHour(probe.hourDigits, probe.marker)

\* C9 witness: 12 with PM was parsed to 12 by both pages
C9_Witness ==
  /\ probe.timeInfo.ok /\ probe.staffTime.ok
  /\ probe.hourDigits = 12 /\ probe.marker = "PM"
  /\ probe.timeInfo.hour = 12 /\ probe.staffTime.hour = 12

\* C10: the peak hour of the 24 filtered buckets, on the page and in the
\* summary report, is the bucket whose count no bucket exceeds and no earlier
\* bucket reaches: of several buckets with the maximum count the one of the
\* lowest hour.
C10_PeakIsFirstMaximum ==
  WorkflowReady =>
    LET data == filteredData(wf)
        report == generateSummaryReport(wf)
    IN \E i \in 1..24 :
         /\ peakHour(data) = data[i]
         /\ \A j \in 1..24 : data[j].count <= data[i].count
         /\ \A j \in 1..(i - 1) : data[j].count < data[i].count
         /\ report.peakHour = HourLabel(wf.timeFormat, data[i])
         /\ report.peakHourStudies = data[i].count
         /\ PeakHourCard(wf) = HourLabel(wf.timeFormat, data[i])

\* C10 witness: buckets 9 and 23 share the maximum count 1, the peak is bucket 9
C10_Witness ==
  /\ WorkflowReady
  /\ filteredData(wf)[10].count = 1
  /\ filteredData(wf)[24].count = 1
  /\ SumCounts(filteredData(wf)) = 2
  /\ peakHour(filteredData(wf)) = filteredData(wf)[10]

\* C11: when an analytic view mounts while the store holds no entry, the view
\* goes to the route "/" and nothing is parsed or aggregated: with an absent
\* entry no page is left mounted on an analytic route once its effect has run,
\* no exception escapes, and the state of both views is the initial one.
C11_AbsentEntryRedirects ==
  store.kind = "absent" =>
    /\ ~effectPending => route = "/"
    /\ ~uncaught
    /\ wf = WorkflowInit
    /\ sp = StaffInit

\* C11 witness: under SpecIngest, where every behaviour starts on an analytic
\* route, the route "/" is reached by the redirect of a mount effect alone
C11_Witness ==
  /\ store.kind = "absent"
  /\ route = "/" /\ ~effectPending
  /\ wf.hourlyData = <<>> /\ wf.totalEntries = 0
  /\ sp.originalData = <<>> /\ sp.totalStudies = 0 /\ sp.error = NoError

\* the value is a member of the selection
Member(selection, value) == \E j \in 1..Len(selection) : selection[j] = value

\* a dimension is passed when its selection is empty or holds the value
PassesDimension(selection, value) == selection = <<>> \/ Member(selection, value)

\* the record passes the modality, status and signer dimensions
PassesCategories(modalities, statuses, signers, modality, status, signer) ==
  /\ PassesDimension(modalities, modality)
  /\ PassesDimension(statuses, status)
  /\ PassesDimension(signers, signer)

\* the criteria with the three selections emptied
NoSelection(s) ==
  [s EXCEPT !.selectedModalities = <<>>, !.selectedStatuses = <<>>,
            !.selectedRadiologists = <<>>]

\* the rows of the productivity view that pass the date and time tests of s
\* and the three dimensions
StaffRetained(s) ==
  {i \in 1..Len(s.originalData) :
     /\ RowOutcome(NoSelection(s), s.originalData[i]) = "keep"
     /\ PassesCategories(s.selectedModalities, s.selectedStatuses, s.selectedRadiologists,
                         RowModality(s.originalData[i]), OrElse(s.originalData[i].Status, NA),
                         RowSigner(s.originalData[i]))}

\* C12: in both views a record passes the modality, status or signer dimension
\* exactly when the selection of the dimension is empty or holds the value of
\* the record, and it is retained only if it passes all three. Workflow view:
\* in a bucket the time range keeps, an entry that passes the date range is in
\* the filtered bucket as often as in the unfiltered one when it passes the
\* three dimensions and not at all otherwise. Productivity view: the studies
\* counted are the rows that pass the date and time tests and the three
\* dimensions.
C12_CategoricalFiltering ==
  /\ WorkflowReady =>
       LET data == filteredData(wf) IN
       \A i \in 1..Len(wf.hourlyData) :
         \A j \in 1..Len(wf.hourlyData[i].entries) :
           LET e == wf.hourlyData[i].entries[j]
               kept == /\ TimeRangeMatch(HourPart(wf.hourlyData[i].hour),
                                         HourPart(wf.timeRange.start),
                                         HourPart(wf.timeRange.end))
                       /\ dateMatch(wf, e)
                       /\ PassesCategories(wf.selectedModalities, wf.selectedStatuses,
                                           wf.selectedSigners, e.modality, e.status,
                                           e.reportSignedBy)
           IN Times(e, data[i].entries) = IF kept THEN Times(e, wf.hourlyData[i].entries) ELSE 0
  /\ StaffReady => sp.totalStudies = Cardinality(StaffRetained(sp))

\* C12 witness: with one status selected in the workflow view, one of two
\* records is retained, and it has the selected status
C12_Witness ==
  /\ WorkflowReady
  /\ Len(wf.selectedStatuses) = 1 /\ wf.selectedModalities = <<>> /\ wf.selectedSigners = <<>>
  /\ wf.totalEntries = 2
  /\ LET kept == AllEntries(filteredData(wf)) IN
       Len(kept) = 1 /\ kept[1].status = wf.selectedStatuses[1]

\* the four aggregates of the claim as a record
ShownAggregates(s) ==
  [staffData |-> s.staffData, modalityData |-> s.modalityData,
   totalStudies |-> s.totalStudies, workingDays |-> s.workingDays]

\* the aggregation of the rows of originalData that the criteria of s retain
FullAggregation(s) == ShownAggregates(Aggregates(FilteredRows(s, s.originalData)))

\* C13: in the productivity view, after any sequence of filter changes and the
\* recomputation each triggers, staffData, modalityData, totalStudies and
\* workingDays are the aggregation of the unchanged originalData under the
\* current criteria, and none carries a value computed under earlier criteria.
\* Stated so that a view that has not aggregated anything yet satisfies it: the
\* aggregates are those of the current criteria or still the constructed ones.
\* The code does not keep this once a row reaches the time test without a
\* Time: see C3.
C13_AggregatesFollowCriteria ==
  (StaffReady /\ store.kind = "json") =>
    /\ sp.originalData = store.rows
    /\ \/ ShownAggregates(sp) = FullAggregation(sp)
       \/ ShownAggregates(sp) = ShownAggregates(StaffInit)

\* C14: in the workflow view no change of the filter criteria (a modality,
\* status or signer checked or unchecked, a date or time bound edited, the
\* filters cleared) changes the unfiltered hour buckets or totalEntries: every
\* step that leaves the view mounted leaves both as they were set at ingestion.
C14_CriteriaLeaveIngestedBuckets ==
  [][(WorkflowReady /\ WorkflowReady') =>
       (wf'.hourlyData = wf.hourlyData /\ wf'.totalEntries = wf.totalEntries)]_vars

\* C14 witness: a modality is selected and hides one of two records, while the
\* unfiltered buckets still hold both
C14_Witness ==
  /\ WorkflowReady
  /\ Len(wf.selectedModalities) = 1
  /\ wf.totalEntries = 2
  /\ SumCounts(wf.hourlyData) = 2
  /\ SumCounts(filteredData(wf)) = 1

\* the workflow view with the buckets ingested again from the stored rows
\* and the criteria of w
WorkflowAfresh(w) == WorkflowLoaded(w, processTimestamps(store.rows))

\* the productivity view that has evaluated nothing but the criteria of s on
\* the stored rows
StaffAfresh(s) ==
  processData([StaffLoaded(StaffInit, store.rows, getAvailableFilterOptions(store.rows))
                 EXCEPT !.dateRange = s.dateRange, !.timeRange = s.timeRange,
                        !.selectedModalities = s.selectedModalities,
                        !.selectedStatuses = s.selectedStatuses,
                        !.selectedRadiologists = s.selectedRadiologists],
              store.rows)

\* C15: the recomputation is a function of the ingested records and the
\* current criteria alone. Evaluating the criteria once more changes nothing,
\* and what each view shows is what the same criteria give on the same records
\* with no criteria applied before: the filtered buckets and counts of the
\* workflow view, the aggregates of the productivity view.
\* The code does not keep this in the productivity view once a row reaches the
\* time test without a Time: see C3.
C15_RecomputationIgnoresHistory ==
  /\ (WorkflowReady /\ store.kind = "json") =>
       filteredData(wf) = filteredData(WorkflowAfresh(wf))
  /\ (StaffReady /\ store.kind = "json" /\ Len(store.rows) > 0) =>
       /\ Reprocess(sp) = sp
       /\ ShownAggregates(sp) = ShownAggregates(StaffAfresh(sp))

\* both bounds of the time range hold a time
BothBoundsSet(range) == range.start # <<>> /\ range.end # <<>>

\* the minute part of a time-range bound
BoundMinute(bound) == ParseInt(Split(bound)[2])

\* C16: the time range of the workflow view is applied per bucket at hour
\* granularity. With startHour and endHour the hour parts of the two bounds,
\* the bucket of an hour outside [startHour, endHour] has count 0 and no
\* entries, and the bucket of an hour inside it keeps every entry that passes
\* the other predicates, whatever its minutes: none is excluded by the time
\* range. (What an empty bound stands for is the subject of C6.)
C16_TimeRangeZeroesWholeBuckets ==
  (WorkflowReady /\ store.kind = "json" /\ BothBoundsSet(wf.timeRange)) =>
    LET data == filteredData(wf)
        startHour == BoundHour(wf.timeRange.start, 0)
        endHour == BoundHour(wf.timeRange.end, 23)
    IN \A h \in Hours :
         IF h < startHour \/ h > endHour
         THEN data[h + 1].count = 0 /\ data[h + 1].entries = <<>>
         ELSE /\ data[h + 1].entries = FilteredEntries(wf, wf.hourlyData[h + 1].entries)
              /\ data[h + 1].count = Len(data[h + 1].entries)

\* C16 witness: under the range 09:30 to 10:15 the record of 09:15 AM is kept
\* in bucket 9 and the record of 11:59 pm is gone from bucket 23
C16_Witness ==
  /\ WorkflowReady
  /\ wf.timeRange = [start |-> Time_0930, end |-> Time_1015]
  /\ Len(wf.hourlyData) = 24
  /\ wf.hourlyData[10].count = 1 /\ wf.hourlyData[24].count = 1
  /\ LET data == filteredData(wf) IN
       /\ data[10].count = 1
       /\ data[10].entries[1].timestamp = Date_0103 \o <<" ">> \o Time_0915AM
       /\ data[24].count = 0 /\ data[24].entries = <<>>

\* the time of the row parses and its minute of the day lies between the
\* minutes of the day of the two bounds
TimeKept(range, row) ==
  LET time == Staff_extractTimeFromString(row.Time.v)
      startValue == BoundHour(range.start, 0) * 60 + BoundMinute(range.start)
      endValue == BoundHour(range.end, 23) * 60 + BoundMinute(range.end)
  IN /\ row.Time.t = "string"
     /\ time.ok
     /\ startValue <= time.hour * 60 + time.minute
     /\ time.hour * 60 + time.minute <= endValue

\* C17: the time range of the productivity view is applied per record at
\* minute granularity: a record is retained by the time predicate exactly when
\* startHour*60+startMinute <= hour*60+minute <= endHour*60+endMinute for its
\* parsed time, so the studies counted are the rows that pass the other tests
\* and this one. (What an empty bound stands for is the subject of C6.)
C17_TimeRangeTestsMinutes ==
  (StaffReady /\ BothBoundsSet(sp.timeRange)) =>
    sp.totalStudies =
      Cardinality({i \in 1..Len(sp.originalData) :
                     /\ RowOutcome([sp EXCEPT !.timeRange = FullDay], sp.originalData[i]) = "keep"
                     /\ TimeKept(sp.timeRange, sp.originalData[i])})

\* C17 witness: under the range 09:30 to 10:15 the row of 9:45 is counted and
\* the row of 09:15 AM is not
C17_Witness ==
  /\ StaffReady
  /\ sp.timeRange = [start |-> Time_0930, end |-> Time_1015]
  /\ Len(sp.originalData) = 2
  /\ \E i, j \in 1..2 : /\ sp.originalData[i].Time.v = Time_0915AM
                        /\ sp.originalData[j].Time.v = Time_945
  /\ sp.totalStudies = 1
  /\ sp.staffData[1].studies[1].Time.v = Time_945

\* the raw date lies between the bounds as a string, or a bound is empty
DatePasses(range, date) ==
  range.start = <<>> \/ range.end = <<>>
  \/ (~StrLess(date, range.start) /\ ~StrLess(range.end, date))

\* C18: in the workflow view a record passes the date predicate if the start
\* bound or the end bound is empty, and otherwise exactly when
\* start <= record.date <= end as strings, both bounds inclusive: in a bucket
\* the time range keeps, an entry that passes the three selections is in the
\* filtered bucket as often as in the unfiltered one when its raw date passes
\* and not at all otherwise.
C18_DateRangeComparesStrings ==
  (WorkflowReady /\ store.kind = "json") =>
    LET data == filteredData(wf) IN
    \A i \in 1..24 :
      \A j \in 1..Len(wf.hourlyData[i].entries) :
        LET e == wf.hourlyData[i].entries[j]
            kept == /\ TimeRangeMatch(HourPart(wf.hourlyData[i].hour),
                                      HourPart(wf.timeRange.start),
                                      HourPart(wf.timeRange.end))
                    /\ modalityMatch(wf, e) /\ statusMatch(wf, e) /\ signerMatch(wf, e)
                    /\ DatePasses(wf.dateRange, ToText(e.date))
        IN Times(e, data[i].entries) = IF kept THEN Times(e, wf.hourlyData[i].entries) ELSE 0

\* C18 witness: under 2024-01-01 to 2024-01-02 the record dated 2024-01-02, the
\* end bound itself, is kept and the record dated 01/03/2024, which sorts
\* before the start bound as a string, is not
C18_Witness ==
  /\ WorkflowReady
  /\ wf.dateRange = [start |-> Iso_0101, end |-> Iso_0102]
  /\ wf.totalEntries = 2
  /\ \E i \in 1..24 : \E j \in 1..Len(wf.hourlyData[i].entries) :
       wf.hourlyData[i].entries[j].date = Str(Date_0103)
  /\ LET kept == AllEntries(filteredData(wf)) IN
       Len(kept) = 1 /\ kept[1].date = Str(Iso_0102)

\* dates and date bounds the date test of the productivity view is tried on
Date_1231 == <<"1", "2", "/", "3", "1", "/", "2", "0", "2", "3">>

Date_0230 == <<"0", "2", "/", "3", "0", "/", "2", "0", "2", "4">>

Iso_0230 == <<"2", "0", "2", "4", "-", "0", "2", "-", "3", "0">>

ProbeDates == {Str(Date_1231), Str(Date_0101), Str(Date_0102), Str(Date_0103),
               Str(Date_0230), Str(Iso_0102), Str(Date_0103 \o <<" ">>),
               Num(Serial_0102), Undefined}

ProbeBounds == {Iso_0101, Iso_0102, Iso_0230}

\* a row with the given Date
DatedRow(date) == Row(date, Str(Time_945), Str(Chars_CT), Str(Chars_Final), Str(Chars_DrA))

\* the days of a valid date counted so that earlier dates count less
DayNumber(date) == (date.y * 12 + date.m) * 31 + date.d

\* both bounds and the date of the row parse, and the date is before the start
\* or after the end
ExcludedByDate(range, row) ==
  LET startDate == ParseIsoDate(range.start)
      endDate == ParseIsoDate(range.end)
      currentDate == IF row.Date.t = "string" THEN ParseUsDate(row.Date.v) ELSE InvalidDate
  IN /\ startDate.valid /\ endDate.valid /\ currentDate.valid
     /\ (DayNumber(currentDate) < DayNumber(startDate)
         \/ DayNumber(currentDate) > DayNumber(endDate))

\* C19: in the productivity view with both date bounds set, a record is not
\* excluded by the date predicate when a bound or its own date fails to parse
\* as a calendar date (month/day/year for the record), and no error is
\* reported; when all three parse, it is excluded exactly when its date is
\* before the start or after the end. The studies counted are the rows that
\* pass the other tests and are not excluded in this sense, and the date test
\* agrees with it on every tried date under every tried pair of bounds.
\* The code does not keep this for a Date that is not a string when the parse
\* of the library throws on it: the catch of the date test excludes the row.
C19_DateRangeParsesOrPasses ==
  (StaffReady /\ store.kind = "json" /\ sp.dateRange.start # <<>> /\ sp.dateRange.end # <<>>) =>
    /\ sp.error = NoError
    /\ sp.totalStudies =
         Cardinality({i \in 1..Len(sp.originalData) :
                        /\ RowOutcome([sp EXCEPT !.dateRange = NoRange], sp.originalData[i]) = "keep"
                        /\ ~ExcludedByDate(sp.dateRange, sp.originalData[i])})
    /\ \A date \in ProbeDates : \A start \in ProbeBounds : \A end \in ProbeBounds :
         DateExcludes([sp EXCEPT !.dateRange = [start |-> start, end |-> end]], DatedRow(date))
           = ExcludedByDate([start |-> start, end |-> end], DatedRow(date))

\* the counts of the 24 buckets are those of the function counts on the
\* hours, 0 elsewhere
CountsAre(data, hours, counts) ==
  /\ Len(data) = 24
  /\ \A h \in Hours : data[h + 1].count = IF h \in hours THEN counts[h] ELSE 0

\* hour 9 as the views write it
NineOClock(timeFormat) ==
  IF timeFormat = "24" THEN <<"0", "9", ":", "0", "0">>
  ELSE <<"0", "9", ":", "0", "0", " ", "A", "M">>

\* C20: on the three rows 01/01/2024 09:15 AM CT Final Dr. A, 01/01/2024
\* 09:45 AM MR Prelim Dr. B and 01/02/2024 14:00 CT Final Dr. A, with no
\* filters the bucket of hour 9 counts 2, the bucket of hour 14 counts 1 and
\* every other bucket 0, workingDays is 2, and the staff aggregate of Dr. A has
\* count 2 and the modality map {CT: 2}; with the modality selection {CT} the
\* workflow total is 2, one in hour 9 and one in hour 14, and the peak hour
\* is 9.
C20_ThreeRowScenario ==
  store = JsonOf(ScenarioRows) =>
    /\ (WorkflowReady /\ DefaultCriteria(wf)) =>
         CountsAre(filteredData(wf), {9, 14}, (9 :> 2) @@ (14 :> 1))
    /\ (StaffReady /\ NoSelection(sp) = sp /\ sp.dateRange = NoRange /\ sp.timeRange = FullDay) =>
         /\ sp.workingDays = 2
         /\ \E i \in 1..Len(sp.staffData) :
              /\ sp.staffData[i].reportSignedBy = Str(Chars_DrA)
              /\ sp.staffData[i].count = 2
         /\ \E i \in 1..Len(sp.staffModalityData) :
              /\ sp.staffModalityData[i].reportSignedBy = Str(Chars_DrA)
              /\ sp.staffModalityData[i].modalities = <<[key |-> Chars_CT, value |-> Num(<<"2">>)]>>
    /\ (WorkflowReady /\ DefaultCriteria([wf EXCEPT !.selectedModalities = <<>>])
          /\ wf.selectedModalities = <<Str(Chars_CT)>>) =>
         LET data == filteredData(wf) IN
           /\ CountsAre(data, {9, 14}, (9 :> 1) @@ (14 :> 1))
           /\ SumCounts(data) = 2
           /\ peakHour(data) = data[10]
           /\ PeakHourCard(wf) = NineOClock(wf.timeFormat)
           /\ generateSummaryReport(wf).peakHour = NineOClock(wf.timeFormat)

\* C20 witness: the three rows are stored, CT alone is selected in the
\* workflow view, and the view shows two studies
C20_Witness ==
  /\ store = JsonOf(ScenarioRows)
  /\ WorkflowReady
  /\ wf.totalEntries = 3
  /\ wf.selectedModalities = <<Str(Chars_CT)>>
  /\ DefaultCriteria([wf EXCEPT !.selectedModalities = <<>>])
  /\ SumCounts(filteredData(wf)) = 2

\* C21: no entry of staffData is of a signer with zero studies under the
\* current filter (every entry has a count of at least 1, and its signer has
\* signed a row that the current criteria retain), while
\* availableRadiologists, availableModalities and availableStatuses hold the
\* value of every ingested row after any sequence of filter changes, so that a
\* signer the filter hides can be selected again.
\* The code does not keep the first part once a row reaches the time test
\* without a Time: see C3.
C21_NoEmptyStaffEntryOptionsKept ==
  (StaffReady /\ store.kind = "json") =>
    /\ \A i \in 1..Len(sp.staffData) :
         /\ sp.staffData[i].count >= 1
         /\ \E j \in StaffRetained(sp) :
              RowSigner(sp.originalData[j]) = sp.staffData[i].reportSignedBy
    /\ \A j \in 1..Len(store.rows) :
         /\ Member(sp.availableRadiologists, RowSigner(store.rows[j]))
         /\ Member(sp.availableModalities, RowModality(store.rows[j]))
         /\ Member(sp.availableStatuses, OrElse(store.rows[j].Status, NA))

\* the Date values the rows carry
DateValues(rows) ==
  {rows[i].Date : i \in {j \in 1..Len(rows) : rows[j].Date # Undefined /\ rows[j].Date # Str(<<>>)}}

\* C22: in the productivity view workingDays is the number of distinct Date
\* values among the rows that pass the current criteria; it is 0 when no row
\* passes and never exceeds totalStudies.
\* The code does not keep this once a row reaches the time test without a
\* Time: see C3.
C22_WorkingDaysCountDistinctDates ==
  (StaffReady /\ store.kind = "json") =>
    LET passing == FilteredRows(sp, store.rows) IN
      /\ sp.workingDays = Cardinality(DateValues(passing))
      /\ passing = <<>> => sp.workingDays = 0
      /\ sp.workingDays <= sp.totalStudies

\* hour h written with two digits and ":00"
TwoDigitHour(h) == <<Digits[(h \div 10) + 1], Digits[(h % 10) + 1], ":", "0", "0">>

\* C23: after ingestion the unfiltered buckets and, for every filter criteria,
\* the filtered view are exactly 24 buckets in ascending hour order 0..23 with
\* the same hour labels, the hours without data and the hours the time range
\* zeroes included.
C23_TwentyFourBucketsInOrder ==
  (WorkflowReady /\ store.kind = "json") =>
    LET data == filteredData(wf) IN
      /\ Len(wf.hourlyData) = 24 /\ Len(data) = 24
      /\ \A h \in Hours :
           /\ wf.hourlyData[h + 1].hour = TwoDigitHour(h)
           /\ data[h + 1].hour = wf.hourlyData[h + 1].hour
           /\ data[h + 1].hour12 = wf.hourlyData[h + 1].hour12

\* C23 witness: the time range 09:30 to 10:15 zeroes bucket 13, which holds a
\* record, and the filtered view still has it as its 14th bucket
C23_Witness ==
  /\ WorkflowReady
  /\ wf.timeRange = [start |-> Time_0930, end |-> Time_1015]
  /\ Len(wf.hourlyData) = 24
  /\ wf.hourlyData[14].count >= 1
  /\ LET data == filteredData(wf) IN
       /\ Len(data) = 24
       /\ data[14].count = 0
       /\ data[14].hour = <<"1", "3", ":", "0", "0">>
       /\ data[1].count = 0 /\ wf.hourlyData[1].count = 0

\* a is b with some of its elements left out
RECURSIVE IsSubsequence(_, _)
IsSubsequence(a, b) ==
  IF a = <<>> THEN TRUE
  ELSE IF b = <<>> THEN FALSE
  ELSE IF Head(a) = Head(b) THEN IsSubsequence(Tail(a), Tail(b))
  ELSE IsSubsequence(a, Tail(b))

\* the filtered entries of every bucket are a subsequence of its unfiltered ones
FilteredAreSubsequences(w) ==
  LET data == filteredData(w) IN
    \A i \in 1..24 : IsSubsequence(data[i].entries, w.hourlyData[i].entries)

\* C24 as the specification states it: after ingestion the entries of every
\* unfiltered bucket are in ascending lexicographic order of the timestamp
\* string, and for every filter criteria the entries of the filtered bucket are
\* a subsequence of the unfiltered ones in the same relative order.
C24_EntriesAscendLexicographically ==
  (WorkflowReady /\ store.kind = "json") =>
    /\ \A i \in 1..24 : \A j \in 1..(Len(wf.hourlyData[i].entries) - 1) :
         StrLeq(wf.hourlyData[i].entries[j].timestamp, wf.hourlyData[i].entries[j + 1].timestamp)
    /\ FilteredAreSubsequences(wf)

\* C24 amended: after ingestion the entries of every unfiltered bucket are in
\* ascending order of the timestamp under the locale-sensitive comparison of
\* String.prototype.localeCompare (punctuation before digits before letters,
\* lower case before upper case), not under the comparison of code units, and
\* for every filter criteria the entries of the filtered bucket are a
\* subsequence of the unfiltered ones in the same relative order.
C24_EntriesAscendInLocaleOrder ==
  (WorkflowReady /\ store.kind = "json") =>
    /\ \A i \in 1..24 : \A j \in 1..(Len(wf.hourlyData[i].entries) - 1) :
         localeCompare(wf.hourlyData[i].entries[j].timestamp,
                       wf.hourlyData[i].entries[j + 1].timestamp) <= 0
    /\ FilteredAreSubsequences(wf)

\* C24 witness: bucket 13 holds "01/01/2024 1:05 PM" before "01/01/2024 13:05",
\* ingested in the other order, and with MR selected only the second is left
C24_Witness ==
  /\ WorkflowReady
  /\ Len(store.rows) = 2
  /\ store.rows[1].Time.v = Time_1305 /\ store.rows[2].Time.v = Time_105PM
  /\ Len(wf.hourlyData) = 24
  /\ Len(wf.hourlyData[14].entries) = 2
  /\ wf.hourlyData[14].entries[1].timestamp = Date_0101 \o <<" ">> \o Time_105PM
  /\ wf.hourlyData[14].entries[2].timestamp = Date_0101 \o <<" ">> \o Time_1305
  /\ wf.selectedModalities = <<Str(Chars_MR)>>
  /\ filteredData(wf)[14].entries = <<wf.hourlyData[14].entries[2]>>

\* every row has a string Time
EveryTimeIsAString(rows) == \A i \in 1..Len(rows) : rows[i].Time.t = "string"

\* C25: under the default criteria (no selection, empty date range, time range
\* 00:00 to 23:59), for every ingested row set in which each row has a string
\* Time, the workflow total (the sum of the filtered bucket counts) is the
\* totalStudies of the productivity view: both views count the same records.
\* The code does not keep this for a time of hour 23 with minutes above 59.
C25_BothViewsCountTheSameRecords ==
  (store.kind = "json" /\ EveryTimeIsAString(store.rows)) =>
    /\ (WorkflowReady /\ DefaultCriteria(wf)) =>
         SumCounts(filteredData(wf)) = StaffAfresh(StaffInit).totalStudies
    /\ (StaffReady /\ sp.dateRange = NoRange /\ sp.timeRange = FullDay /\ NoSelection(sp) = sp) =>
         sp.totalStudies = SumCounts(filteredData(WorkflowAfresh(WorkflowInit)))

\* the extension is one of those handleFileUpload has a branch for
Supported(file) == file.ext \in {"xlsx", "csv", "pdf"}

\* the steps of an upload: the first navigates nowhere and writes nothing, and
\* refuses an unsupported extension with an error; the resumed one writes the
\* extracted rows and enters "/workflow", or, the extraction having failed,
\* leaves store and route and sets an error (with whileMounted: when its
\* HomePage is still mounted; without: in every case); nothing else enters
\* "/workflow" from another route, and no step that sets an error writes or
\* navigates
UploadSteps(whileMounted) ==
  /\ \A file \in Files :
       handleFileUpload(file) =>
         /\ store' = store /\ route' = "/"
         /\ ~Supported(file) => home'.error = UnsupportedError
  /\ \A read \in BagToSet(reads) :
       handleFileUploadResumed(read) =>
         IF read.file.readable
         THEN store' = JsonOf(read.file.rows) /\ route' = "/workflow"
         ELSE /\ store' = store /\ route' = route
              /\ (whileMounted => read.attached) => home'.error \in {FileError, PdfError}
  /\ (route # "/workflow" /\ route' = "/workflow") =>
       \E read \in BagToSet(reads) : read.file.readable /\ store' = JsonOf(read.file.rows)
  /\ (home'.error # home.error /\ home'.error # NoError) =>
       store' = store /\ route' = route

\* C27 as stated: in HomePage the route "/workflow" is entered only with the
\* extracted rows written to the store entry in the same upload, and an upload
\* of a file with an unsupported extension or whose extraction fails sets an
\* error, leaves the store entry as it was and does not navigate.
C27_FailedUploadSetsAnError == [][UploadSteps(FALSE)]_vars

\* C27: in HomePage the route "/workflow" is entered only with the extracted
\* rows written to the store entry in the same upload; an upload of a file with
\* an unsupported extension or whose extraction fails leaves the store entry
\* as it was and does not navigate, and it sets an error on the HomePage that
\* started it when that page is still mounted at the time the extraction fails.
C27_UploadWritesThenNavigates == [][UploadSteps(TRUE)]_vars

\* C27 witness: an upload has written its two rows and entered the workflow
\* view, while an upload of an unreadable file, started on a HomePage that was
\* left since, still waits for its file
C27_Witness ==
  /\ route = "/workflow"
  /\ store.kind = "json" /\ Len(store.rows) = 2
  /\ home.error = NoError
  /\ \E read \in BagToSet(reads) : ~read.attached /\ ~read.file.readable

\* C28: in every reachable state of the workflow view each unfiltered bucket
\* and each filtered bucket has a count equal to the number of its entries, and
\* the count of each filtered bucket is at most the unfiltered count of the
\* same hour.
C28_CountsAreEntryNumbers ==
  (WorkflowReady /\ store.kind = "json") =>
    LET data == filteredData(wf) IN
      \A i \in 1..24 :
        /\ wf.hourlyData[i].count = Len(wf.hourlyData[i].entries)
        /\ data[i].count = Len(data[i].entries)
        /\ data[i].count <= wf.hourlyData[i].count

\* C28 witness: bucket 13 holds two records and, with CT selected, one
C28_Witness ==
  /\ WorkflowReady
  /\ wf.selectedModalities = <<Str(Chars_CT)>>
  /\ Len(wf.hourlyData) = 24
  /\ wf.hourlyData[14].count = 2 /\ Len(wf.hourlyData[14].entries) = 2
  /\ LET data == filteredData(wf) IN
       data[14].count = 1 /\ Len(data[14].entries) = 1

\* the sum of the values of an object whose values are numbers
RECURSIVE SumOfValues(_)
SumOfValues(obj) ==
  IF obj = <<>> THEN 0 ELSE DecimalValue(Head(obj).value.v, 0) + SumOfValues(Tail(obj))

\* C26: after every recomputation of the productivity view the counts of the
\* staff aggregates sum to totalStudies, the counts of modalityData sum to
\* totalStudies, and for each signer the values of its modality map sum to the
\* count of that signer; every filtered row is attributed to exactly one signer
\* ("Unassigned" when absent) and to exactly one modality ("N/A" when absent).
C26_AggregatesPartitionTheStudies ==
  (StaffReady /\ store.kind = "json") =>
    /\ SumCounts(sp.staffData) = sp.totalStudies
    /\ SumCounts(sp.modalityData) = sp.totalStudies
    /\ Len(sp.staffModalityData) = Len(sp.staffData)
    /\ \A i \in 1..Len(sp.staffModalityData) :
         /\ \A p \in 1..Len(sp.staffModalityData[i].modalities) :
              sp.staffModalityData[i].modalities[p].value.t = "number"
         /\ SumOfValues(sp.staffModalityData[i].modalities) = sp.staffModalityData[i].totalStudies
         /\ \E k \in 1..Len(sp.staffData) :
              /\ sp.staffData[k].reportSignedBy = sp.staffModalityData[i].reportSignedBy
              /\ sp.staffData[k].count = sp.staffModalityData[i].totalStudies
    /\ sp.error = NoError =>
         LET rows == FilteredRows(sp, store.rows) IN
           \A i \in 1..Len(rows) :
             /\ {k \in 1..Len(sp.staffData) : Member(sp.staffData[k].studies, rows[i])}
                  = {k \in 1..Len(sp.staffData) :
                       sp.staffData[k].reportSignedBy = OrElse(rows[i].ReportSignedBy, Unassigned)}
             /\ Cardinality({k \in 1..Len(sp.staffData) : Member(sp.staffData[k].studies, rows[i])}) = 1
             /\ Cardinality({k \in 1..Len(sp.modalityData) :
                               sp.modalityData[k].modality = OrElse(rows[i].Mod, NA)}) = 1

\* the criteria of the productivity view are the default ones
DefaultStaffCriteria(s) ==
  /\ s.selectedModalities = <<>> /\ s.selectedStatuses = <<>> /\ s.selectedRadiologists = <<>>
  /\ s.dateRange = NoRange
  /\ s.timeRange = FullDay

\* C29: clearFilters, from any filter criteria in either view, empties the
\* three selections and the date range and sets the time range to 00:00-23:59;
\* afterwards the filtered view of the workflow view is its unfiltered buckets
\* and the aggregates of the productivity view are those computed at mount.
\* The aggregates are those the effect computes that the change of the
\* filters has made due. The code does not keep the last part once a row
\* reaches the time test without a Time: see C3.
C29_ClearFiltersRestoresTheMountedView ==
  [][/\ WorkflowClearFilters =>
          /\ DefaultCriteria(wf')
          /\ filteredData(wf') = wf'.hourlyData
     /\ StaffClearFilters =>
          /\ DefaultStaffCriteria(sp')
          /\ reprocessDue'
          /\ ShownAggregates(Reprocess(sp')) = ShownAggregates(StaffAfresh(StaffInit))]_vars


Toggled(before, after, available) ==
  \E i \in 1..Len(available) :
    LET value == available[i]
        Other(item) == item # value
    IN IF Member(before, value)
         THEN after = SelectSeq(before, Other) /\ ~Member(after, value)
         ELSE after = Append(before, value)

NoDuplicates(selection) ==
  \A i, j \in 1..Len(selection) : selection[i] = selection[j] => i = j

SelectionOf(selection, available) ==
  /\ NoDuplicates(selection)
  /\ \A i \in 1..Len(selection) : Member(available, selection[i])

\* C30: after any sequence of checkbox toggles and clearFilters, each of the
\* three selection lists of either view has no duplicate value and holds only
\* values of its available-options list; a toggle of an unchecked option adds
\* exactly that value, a toggle of a checked option removes exactly that
\* value, and the other two selections and both ranges are left unchanged.
\* The productivity view does not keep this for an option that is a number:
\* its handler appends the text of the option, which the checkbox does not
\* take for the option.
C30_TogglesKeepSelectionsWellFormed ==
  [][/\ SelectionOf(wf'.selectedModalities, wf'.availableModalities)
     /\ SelectionOf(wf'.selectedStatuses, wf'.availableStatuses)
     /\ SelectionOf(wf'.selectedSigners, wf'.availableSigners)
     /\ SelectionOf(sp'.selectedModalities, sp'.availableModalities)
     /\ SelectionOf(sp'.selectedStatuses, sp'.availableStatuses)
     /\ SelectionOf(sp'.selectedRadiologists, sp'.availableRadiologists)
     /\ WorkflowModalityChange =>
          /\ Toggled(wf.selectedModalities, wf'.selectedModalities, wf.availableModalities)
          /\ wf'.selectedStatuses = wf.selectedStatuses
          /\ wf'.selectedSigners = wf.selectedSigners
          /\ wf'.dateRange = wf.dateRange /\ wf'.timeRange = wf.timeRange
     /\ WorkflowStatusChange =>
          /\ Toggled(wf.selectedStatuses, wf'.selectedStatuses, wf.availableStatuses)
          /\ wf'.selectedModalities = wf.selectedModalities
          /\ wf'.selectedSigners = wf.selectedSigners
          /\ wf'.dateRange = wf.dateRange /\ wf'.timeRange = wf.timeRange
     /\ WorkflowSignerChange =>
          /\ Toggled(wf.selectedSigners, wf'.selectedSigners, wf.availableSigners)
          /\ wf'.selectedModalities = wf.selectedModalities
          /\ wf'.selectedStatuses = wf.selectedStatuses
          /\ wf'.dateRange = wf.dateRange /\ wf'.timeRange = wf.timeRange
     /\ StaffModalityChange =>
          /\ Toggled(sp.selectedModalities, sp'.selectedModalities, sp.availableModalities)
          /\ sp'.selectedStatuses = sp.selectedStatuses
          /\ sp'.selectedRadiologists = sp.selectedRadiologists
          /\ sp'.dateRange = sp.dateRange /\ sp'.timeRange = sp.timeRange
     /\ StaffStatusChange =>
          /\ Toggled(sp.selectedStatuses, sp'.selectedStatuses, sp.availableStatuses)
          /\ sp'.selectedModalities = sp.selectedModalities
          /\ sp'.selectedRadiologists = sp.selectedRadiologists
          /\ sp'.dateRange = sp.dateRange /\ sp'.timeRange = sp.timeRange
     /\ StaffRadiologistChange =>
          /\ Toggled(sp.selectedRadiologists, sp'.selectedRadiologists, sp.availableRadiologists)
          /\ sp'.selectedModalities = sp.selectedModalities
          /\ sp'.selectedStatuses = sp.selectedStatuses
          /\ sp'.dateRange = sp.dateRange /\ sp'.timeRange = sp.timeRange]_vars

====
